---------------------------- MODULE Spec2Model ----------------------------
(***************************************************************************)
(* Model of Tudat's environment-update-set resolver                       *)
(* (SimulationSetup/PropagationSetup/createEnvironmentUpdater.cpp).       *)
(*                                                                         *)
(* An update set is the C++                                                *)
(*   std::map< EnvironmentModelsToUpdate, std::vector< std::string > >     *)
(* and is modelled as a function whose domain is the set of facets that   *)
(* have an entry and whose values are sequences of body names.  The       *)
(* environment (NamedBodyMap) is a function from the names of the bodies  *)
(* it holds to records of the sub-models the resolver queries.            *)
(*                                                                         *)
(* The second part models the observation-model factories                  *)
(* (SimulationSetup/EstimationSetup/createObservationModel.h): settings    *)
(* objects are records that carry the name of their concrete class, link   *)
(* ends are functions from link-end roles to (body, reference point)       *)
(* pairs, and a factory yields an outcome together with the object built.  *)
(***************************************************************************)
EXTENDS Naturals, Sequences, FiniteSets, TLC

VARIABLES
    bodyMap,    \* the environment: body name -> sub-models of the body
    op,         \* the operation that produced the current state ("idle": none)
    args,       \* the settings input of that operation
    updates,    \* the update set the operation returned or worked on
    outcome,    \* "ok", or "error" when the operation threw
    built,      \* the object an observation-model factory returned (NoProduct: none)
    constructionLog \* the calculators the last observation-model build constructed

vars == <<bodyMap, op, args, updates, outcome, built, constructionLog>>

---------------------------------------------------------------------------
(* Bounds of the model.                                                    *)

\* Largest number of (facet, body) pairs of a requested update set.
MaxRequested == 2
\* Largest number of acceleration / torque / mass-rate models of one call.
MaxModels == 2
\* Largest number of dependent variables of one save-settings list.
MaxVariables == 2
\* Largest number of nodes of a termination-settings tree.
MaxTerminationNodes == 3
\* Largest number of propagated bodies of one integrated-state list.
MaxPropagated == 2

---------------------------------------------------------------------------
(* Names and enumerations.                                                 *)

\* Body names; std::map< std::string, ... > iterates them in this order.
NameOrder == <<"Earth", "Moon", "Sun", "Vehicle">>
BodyNames == {NameOrder[i] : i \in 1..Len(NameOrder)}

\* The keys of a name-keyed std::map, in iteration order.
SortedKeys(S) == SelectSeq(NameOrder, LAMBDA n : n \in S)

\* EnvironmentModelsToUpdate.  The source spells the translational facet both
\* body_transational_state_update and body_translational_state_update; the
\* enumeration is declared outside the files at hand and the two spellings
\* are taken to name the one translational-state facet.
body_translational_state_update == "body_translational_state_update"
body_rotational_state_update == "body_rotational_state_update"
spherical_harmonic_gravity_field_update == "spherical_harmonic_gravity_field_update"
vehicle_flight_conditions_update == "vehicle_flight_conditions_update"
radiation_pressure_interface_update == "radiation_pressure_interface_update"
body_mass_update == "body_mass_update"

\* No object: the value of built while no observation-model factory has
\* returned one (a factory that throws returns nothing).
NoProduct == [kind |-> "none"]

\* Iteration order of an update set (the order of the enumeration).
FacetOrder ==
    << body_translational_state_update, body_rotational_state_update,
       spherical_harmonic_gravity_field_update, vehicle_flight_conditions_update,
       radiation_pressure_interface_update, body_mass_update >>
Facets == {FacetOrder[i] : i \in 1..Len(FacetOrder)}

\* The facets of an update set, in iteration order.
FacetsOf(m) == SelectSeq(FacetOrder, LAMBDA f : f \in DOMAIN m)

\* std::map< EnvironmentModelsToUpdate, std::vector< std::string > >( )
EmptyUpdates == <<>>

\* m[ facet ].push_back( name )
PushBack(m, facet, name) ==
    IF facet \in DOMAIN m
    THEN [m EXCEPT ![facet] = Append(@, name)]
    ELSE m @@ (facet :> <<name>>)

\* The number of times name is listed under facet.
Occurrences(m, facet, name) ==
    IF facet \in DOMAIN m
    THEN Cardinality({i \in 1..Len(m[facet]) : m[facet][i] = name})
    ELSE 0

Listed(m, facet, name) == Occurrences(m, facet, name) > 0

---------------------------------------------------------------------------
(* The environment.                                                        *)

\* A body with no sub-model at all.
EmptyBody ==
    [ ephemeris |-> FALSE,
      rotationalEphemeris |-> FALSE,
      dependentOrientationCalculator |-> FALSE,
      gravityFieldModel |-> "none",
      flightConditions |-> "none",
      radiationPressureInterfaces |-> {},
      bodyMassFunction |-> FALSE,
      atmosphereModel |-> FALSE,
      aerodynamicCoefficientInterface |-> FALSE ]

\* boost::dynamic_pointer_cast< SphericalHarmonicsGravityField >( ... ) != NULL
\* (the time-dependent field derives from the spherical-harmonic one).
IsSphericalHarmonicsGravityField(g) ==
    g \in {"spherical_harmonic", "time_dependent_spherical_harmonic"}

\* boost::dynamic_pointer_cast< TimeDependentSphericalHarmonicsGravityField >( ... ) != NULL
IsTimeDependentSphericalHarmonicsGravityField(g) ==
    g = "time_dependent_spherical_harmonic"

\* The bodies a run may start with.  Between them every sub-model a facet
\* implies is present on one body and absent from another: the rotation source
\* is none, an ephemeris, a calculator, or both; the gravity field is none, a
\* point mass, spherical harmonic, or time-dependent spherical harmonic; the
\* radiation-pressure interfaces number none, one or two.
VehicleBodies ==
    { EmptyBody,
      [EmptyBody EXCEPT !.ephemeris = TRUE, !.rotationalEphemeris = TRUE,
                        !.gravityFieldModel = "spherical_harmonic",
                        !.radiationPressureInterfaces = {"Earth", "Sun"},
                        !.bodyMassFunction = TRUE,
                        !.aerodynamicCoefficientInterface = TRUE],
      [EmptyBody EXCEPT !.ephemeris = TRUE,
                        !.dependentOrientationCalculator = TRUE,
                        !.flightConditions = "atmospheric",
                        !.radiationPressureInterfaces = {"Sun"},
                        !.bodyMassFunction = TRUE,
                        !.aerodynamicCoefficientInterface = TRUE] }

EarthBodies ==
    { [EmptyBody EXCEPT !.ephemeris = TRUE, !.rotationalEphemeris = TRUE,
                        !.dependentOrientationCalculator = TRUE,
                        !.gravityFieldModel = "time_dependent_spherical_harmonic",
                        !.atmosphereModel = TRUE, !.bodyMassFunction = TRUE],
      [EmptyBody EXCEPT !.ephemeris = TRUE, !.rotationalEphemeris = TRUE,
                        !.gravityFieldModel = "spherical_harmonic"] }

SunBody ==
    [EmptyBody EXCEPT !.ephemeris = TRUE, !.gravityFieldModel = "point_mass",
                      !.bodyMassFunction = TRUE]

\* The Sun as a point mass, and as a body with a rotation model and a
\* spherical harmonic gravity field.
SunBodies ==
    { SunBody,
      [SunBody EXCEPT !.rotationalEphemeris = TRUE,
                      !.gravityFieldModel = "spherical_harmonic"] }

\* The environments a run starts from.  The Moon is in none of them.
Environments ==
    { ("Earth" :> e) @@ ("Sun" :> s) @@ ("Vehicle" :> v) :
          e \in EarthBodies, s \in SunBodies, v \in VehicleBodies }

---------------------------------------------------------------------------
(* checkValidityOfRequiredEnvironmentUpdates                               *)

\* The switch with the rotational case reading the rotational ephemeris only.
HasRequestedModel_NoRotationCalculator(body, facet) ==
    CASE facet = body_translational_state_update -> body.ephemeris
      [] facet = body_rotational_state_update -> body.rotationalEphemeris
      [] facet = spherical_harmonic_gravity_field_update ->
             IsSphericalHarmonicsGravityField(body.gravityFieldModel)
      [] facet = vehicle_flight_conditions_update -> body.flightConditions # "none"
      [] facet = radiation_pressure_interface_update ->
             Cardinality(body.radiationPressureInterfaces) # 0
      [] facet = body_mass_update -> body.bodyMassFunction

\* The switch on the update type: whether the body has the requested model.
HasRequestedModel(body, facet) ==
    CASE facet = body_translational_state_update -> body.ephemeris
      [] facet = body_rotational_state_update ->
             ~ (~ body.rotationalEphemeris /\ ~ body.dependentOrientationCalculator)
      [] facet = spherical_harmonic_gravity_field_update ->
             IsSphericalHarmonicsGravityField(body.gravityFieldModel)
      [] facet = vehicle_flight_conditions_update -> body.flightConditions # "none"
      [] facet = radiation_pressure_interface_update ->
             Cardinality(body.radiationPressureInterfaces) # 0
      [] facet = body_mass_update -> body.bodyMassFunction

\* The inner loop over the bodies of one update type, from index i on.
RECURSIVE CheckUpdatedBodies(_, _, _, _)
CheckUpdatedBodies(facet, names, i, bodies) ==
    IF i > Len(names) THEN "ok"
    ELSE IF names[i] = "" THEN CheckUpdatedBodies(facet, names, i + 1, bodies)
    ELSE IF names[i] \notin DOMAIN bodies THEN "error"
    ELSE IF ~ HasRequestedModel(bodies[names[i]], facet) THEN "error"
    ELSE CheckUpdatedBodies(facet, names, i + 1, bodies)

\* The outer loop over the update types, from the k-th entry on.
RECURSIVE CheckUpdateTypes(_, _, _)
CheckUpdateTypes(requestedUpdates, k, bodies) ==
    LET types == FacetsOf(requestedUpdates) IN
    IF k > Len(types) THEN "ok"
    ELSE IF CheckUpdatedBodies(types[k], requestedUpdates[types[k]], 1, bodies) = "error"
         THEN "error"
         ELSE CheckUpdateTypes(requestedUpdates, k + 1, bodies)

\* "ok" when the function returns, "error" when it throws.
checkValidityOfRequiredEnvironmentUpdates(requestedUpdates, bodies) ==
    CheckUpdateTypes(requestedUpdates, 1, bodies)

---------------------------------------------------------------------------
(* addEnvironmentUpdates: the combinator that extends an update set.  Its  *)
(* definition is outside the files at hand; it is modelled from the       *)
(* specification: for every facet of updatesToAdd its body list is        *)
(* appended to the list of environmentUpdateList, the entry being created *)
(* when absent; nothing is removed and duplicates are kept.               *)

RECURSIVE AddUpdateTypes(_, _, _)
AddUpdateTypes(environmentUpdateList, updatesToAdd, k) ==
    LET types == FacetsOf(updatesToAdd) IN
    IF k > Len(types) THEN environmentUpdateList
    ELSE LET f == types[k]
             extended ==
                 IF f \in DOMAIN environmentUpdateList
                 THEN [environmentUpdateList EXCEPT ![f] = @ \o updatesToAdd[f]]
                 ELSE environmentUpdateList @@ (f :> updatesToAdd[f])
         IN AddUpdateTypes(extended, updatesToAdd, k + 1)

addEnvironmentUpdates(environmentUpdateList, updatesToAdd) ==
    AddUpdateTypes(environmentUpdateList, updatesToAdd, 1)

---------------------------------------------------------------------------
(* createTranslationalEquationsOfMotionEnvironmentUpdaterSettings          *)

\* What a producer hands back: the update set it returns, or outcome "error"
\* and no update set when it throws.
Returned(m) == [updates |-> m, outcome |-> "ok"]
Thrown == [updates |-> EmptyUpdates, outcome |-> "error"]

\* An acceleration model as the producer reads it: its type tag
\* (getAccelerationModelType), whether the dynamic cast to the class of a
\* third-body type succeeds, and the accessors of the third-body, relativistic
\* and thrust classes.
AccelerationModel(type) ==
    [ type |-> type,
      isOfDeclaredClass |-> TRUE,
      centralBodyName |-> "",
      calculateDeSitterCorrection |-> FALSE,
      primaryBodyName |-> "",
      requiredModelUpdates |-> EmptyUpdates ]

ThirdBodyTypes ==
    { "third_body_central_gravity", "third_body_spherical_harmonic_gravity",
      "third_body_mutual_spherical_harmonic_gravity" }

\* The branch of the third-body cases without its test on the acceleration
\* map.
ThirdBodyNeeds_IgnoresPropagation(needs, model, propagated, facets) ==
    IF model.isOfDeclaredClass
    THEN [ needs |->
               LET RECURSIVE Add(_, _)
                   Add(n, k) == IF k > Len(facets) THEN n
                                ELSE Add(PushBack(n, facets[k], model.centralBodyName), k + 1)
               IN Add(needs, 1),
           thrown |-> FALSE ]
    ELSE [needs |-> needs, thrown |-> TRUE]

\* The branch shared by the three third-body cases: the facets are added for
\* the central body when the cast succeeded and the central body is not
\* propagated; a failed cast throws.
ThirdBodyNeeds(needs, model, propagated, facets) ==
    IF model.isOfDeclaredClass /\ model.centralBodyName \notin propagated
    THEN [ needs |->
               LET RECURSIVE Add(_, _)
                   Add(n, k) == IF k > Len(facets) THEN n
                                ELSE Add(PushBack(n, facets[k], model.centralBodyName), k + 1)
               IN Add(needs, 1),
           thrown |-> FALSE ]
    ELSE IF ~ model.isOfDeclaredClass
         THEN [needs |-> needs, thrown |-> TRUE]
         ELSE [needs |-> needs, thrown |-> FALSE]

\* The rule without its test on the acceleration map.
ExertingBodyStateNeeds_Always(needs, exerting, propagated) ==
    PushBack(needs, body_translational_state_update, exerting)

\* The translational-state rule that precedes the switch.
ExertingBodyStateNeeds(needs, exerting, propagated) ==
    IF exerting \notin propagated
    THEN PushBack(needs, body_translational_state_update, exerting)
    ELSE needs

\* The aerodynamic case with the mass update left out.
AerodynamicNeeds_NoMass(needs, accelerated, exerting) ==
    PushBack(PushBack(needs,
        body_rotational_state_update, exerting),
        vehicle_flight_conditions_update, accelerated)

\* case aerodynamic: of the switch.
AerodynamicNeeds(needs, accelerated, exerting) ==
    PushBack(PushBack(PushBack(needs,
        body_rotational_state_update, exerting),
        vehicle_flight_conditions_update, accelerated),
        body_mass_update, accelerated)

\* The body of the loop over the models of one (accelerated, exerting) pair:
\* singleAccelerationUpdateNeeds after the model, or thrown.
AccelerationUpdateNeeds(needs, model, accelerated, exerting, propagated) ==
    LET n0 == ExertingBodyStateNeeds(needs, exerting, propagated)
        Ok(n) == [needs |-> n, thrown |-> FALSE]
        rotationAndField ==
            PushBack(PushBack(n0, body_rotational_state_update, exerting),
                     spherical_harmonic_gravity_field_update, exerting)
        mutualRotationAndField ==
            PushBack(PushBack(rotationAndField, body_rotational_state_update, accelerated),
                     spherical_harmonic_gravity_field_update, accelerated)
    IN CASE model.type = "central_gravity" -> Ok(n0)
         [] model.type = "third_body_central_gravity" ->
                ThirdBodyNeeds(n0, model, propagated, <<body_translational_state_update>>)
         [] model.type = "aerodynamic" -> Ok(AerodynamicNeeds(n0, accelerated, exerting))
         [] model.type = "cannon_ball_radiation_pressure" ->
                Ok(PushBack(PushBack(n0,
                       radiation_pressure_interface_update, accelerated),
                       body_mass_update, accelerated))
         [] model.type = "spherical_harmonic_gravity" -> Ok(rotationAndField)
         [] model.type = "mutual_spherical_harmonic_gravity" -> Ok(mutualRotationAndField)
         [] model.type = "third_body_spherical_harmonic_gravity" ->
                ThirdBodyNeeds(rotationAndField, model, propagated,
                               <<body_translational_state_update>>)
         [] model.type = "third_body_mutual_spherical_harmonic_gravity" ->
                ThirdBodyNeeds(mutualRotationAndField, model, propagated,
                               << body_translational_state_update,
                                  body_rotational_state_update,
                                  spherical_harmonic_gravity_field_update >>)
         [] model.type = "thrust_acceleration" ->
                Ok(PushBack(addEnvironmentUpdates(n0, model.requiredModelUpdates),
                            body_mass_update, accelerated))
         [] model.type = "relativistic_correction_acceleration" ->
                IF model.calculateDeSitterCorrection /\ model.primaryBodyName \notin propagated
                THEN Ok(PushBack(n0, body_translational_state_update, model.primaryBodyName))
                ELSE Ok(n0)
         [] model.type = "direct_tidal_dissipation_acceleration" -> Ok(rotationAndField)
         [] model.type = "empirical_acceleration" -> Ok(n0)
         [] OTHER -> [needs |-> n0, thrown |-> TRUE]

\* The loop over the models of one pair, from index i on.
RECURSIVE AccelerationModelsLoop(_, _, _, _, _, _)
AccelerationModelsLoop(needs, models, i, accelerated, exerting, propagated) ==
    IF i > Len(models) THEN [needs |-> needs, thrown |-> FALSE]
    ELSE LET r == AccelerationUpdateNeeds(needs, models[i], accelerated, exerting, propagated)
         IN IF r.thrown THEN r
            ELSE AccelerationModelsLoop(r.needs, models, i + 1, accelerated, exerting, propagated)

\* The loop over the bodies exerting on one accelerated body, from the j-th on:
\* the needs of each pair are collected from empty, validated and merged.
RECURSIVE ExertingBodiesLoop(_, _, _, _, _, _)
ExertingBodiesLoop(environmentModelsToUpdate, singleBodyMap, j, accelerated, propagated, bodies) ==
    LET exertingBodies == SortedKeys(DOMAIN singleBodyMap) IN
    IF j > Len(exertingBodies) THEN Returned(environmentModelsToUpdate)
    ELSE LET exerting == exertingBodies[j]
             single == AccelerationModelsLoop(EmptyUpdates, singleBodyMap[exerting], 1,
                                              accelerated, exerting, propagated)
         IN IF single.thrown THEN Thrown
            ELSE IF checkValidityOfRequiredEnvironmentUpdates(single.needs, bodies) = "error"
                 THEN Thrown
            ELSE ExertingBodiesLoop(
                     addEnvironmentUpdates(environmentModelsToUpdate, single.needs),
                     singleBodyMap, j + 1, accelerated, propagated, bodies)

\* The loop over the accelerated bodies, from the k-th on.
RECURSIVE AcceleratedBodiesLoop(_, _, _, _)
AcceleratedBodiesLoop(environmentModelsToUpdate, accelerationMap, k, bodies) ==
    LET acceleratedBodies == SortedKeys(DOMAIN accelerationMap) IN
    IF k > Len(acceleratedBodies) THEN Returned(environmentModelsToUpdate)
    ELSE LET r == ExertingBodiesLoop(environmentModelsToUpdate,
                                     accelerationMap[acceleratedBodies[k]], 1,
                                     acceleratedBodies[k], DOMAIN accelerationMap, bodies)
         IN IF r.outcome = "error" THEN r
            ELSE AcceleratedBodiesLoop(r.updates, accelerationMap, k + 1, bodies)

createTranslationalEquationsOfMotionEnvironmentUpdaterSettings(translationalAccelerationModels, bodies) ==
    AcceleratedBodiesLoop(EmptyUpdates, translationalAccelerationModels, 1, bodies)

---------------------------------------------------------------------------
(* createRotationalEquationsOfMotionEnvironmentUpdaterSettings             *)

\* The switch on the torque type; a type outside it is reported on the error
\* stream and adds nothing.
TorqueUpdateNeeds(needs, torqueType, accelerated, exerting) ==
    CASE torqueType = "second_order_gravitational_torque" -> needs
      [] torqueType = "aerodynamic_torque" ->
             PushBack(PushBack(needs, body_rotational_state_update, exerting),
                      vehicle_flight_conditions_update, accelerated)
      [] OTHER -> needs

RECURSIVE TorqueModelsLoop(_, _, _, _, _)
TorqueModelsLoop(needs, models, i, accelerated, exerting) ==
    IF i > Len(models) THEN needs
    ELSE TorqueModelsLoop(TorqueUpdateNeeds(needs, models[i], accelerated, exerting),
                          models, i + 1, accelerated, exerting)

RECURSIVE TorqueExertingBodiesLoop(_, _, _, _, _)
TorqueExertingBodiesLoop(environmentModelsToUpdate, singleBodyMap, j, accelerated, bodies) ==
    LET exertingBodies == SortedKeys(DOMAIN singleBodyMap) IN
    IF j > Len(exertingBodies) THEN Returned(environmentModelsToUpdate)
    ELSE LET single == TorqueModelsLoop(EmptyUpdates, singleBodyMap[exertingBodies[j]], 1,
                                        accelerated, exertingBodies[j])
         IN IF checkValidityOfRequiredEnvironmentUpdates(single, bodies) = "error"
            THEN Thrown
            ELSE TorqueExertingBodiesLoop(
                     addEnvironmentUpdates(environmentModelsToUpdate, single),
                     singleBodyMap, j + 1, accelerated, bodies)

RECURSIVE TorqueAcceleratedBodiesLoop(_, _, _, _)
TorqueAcceleratedBodiesLoop(environmentModelsToUpdate, torqueModels, k, bodies) ==
    LET acceleratedBodies == SortedKeys(DOMAIN torqueModels) IN
    IF k > Len(acceleratedBodies) THEN Returned(environmentModelsToUpdate)
    ELSE LET r == TorqueExertingBodiesLoop(environmentModelsToUpdate,
                                           torqueModels[acceleratedBodies[k]], 1,
                                           acceleratedBodies[k], bodies)
         IN IF r.outcome = "error" THEN r
            ELSE TorqueAcceleratedBodiesLoop(r.updates, torqueModels, k + 1, bodies)

createRotationalEquationsOfMotionEnvironmentUpdaterSettings(torqueModels, bodies) ==
    TorqueAcceleratedBodiesLoop(EmptyUpdates, torqueModels, 1, bodies)

---------------------------------------------------------------------------
(* createMassPropagationEnvironmentUpdaterSettings                         *)

KnownMassRateModels == {"custom_mass_rate_model", "from_thrust_mass_rate_model"}

\* The loop over the mass-rate models of one body, from index i on: the needs
\* of each model (none for the known types) are validated and merged.
RECURSIVE MassRateModelsLoop(_, _, _, _)
MassRateModelsLoop(environmentModelsToUpdate, models, i, bodies) ==
    IF i > Len(models) THEN Returned(environmentModelsToUpdate)
    ELSE IF models[i] \notin KnownMassRateModels THEN Thrown
    ELSE LET singleRateModelUpdateNeeds == EmptyUpdates
         IN IF checkValidityOfRequiredEnvironmentUpdates(singleRateModelUpdateNeeds, bodies) = "error"
            THEN Thrown
            ELSE MassRateModelsLoop(
                     addEnvironmentUpdates(environmentModelsToUpdate, singleRateModelUpdateNeeds),
                     models, i + 1, bodies)

RECURSIVE MassRateBodiesLoop(_, _, _, _)
MassRateBodiesLoop(environmentModelsToUpdate, massRateModels, k, bodies) ==
    LET names == SortedKeys(DOMAIN massRateModels) IN
    IF k > Len(names) THEN Returned(environmentModelsToUpdate)
    ELSE LET r == MassRateModelsLoop(environmentModelsToUpdate, massRateModels[names[k]], 1, bodies)
         IN IF r.outcome = "error" THEN r
            ELSE MassRateBodiesLoop(r.updates, massRateModels, k + 1, bodies)

createMassPropagationEnvironmentUpdaterSettings(massRateModels, bodies) ==
    MassRateBodiesLoop(EmptyUpdates, massRateModels, 1, bodies)

---------------------------------------------------------------------------
(* checkAndModifyEnvironmentForDependentVariableSaving and                 *)
(* createEnvironmentUpdaterSettingsForDependentVariables                   *)

\* Dependent-variable types by the entry of the table they share.
AerodynamicVariables ==
    { "mach_number_dependent_variable", "altitude_dependent_variable",
      "airspeed_dependent_variable", "local_density_dependent_variable",
      "aerodynamic_force_coefficients_dependent_variable",
      "aerodynamic_moment_coefficients_dependent_variable",
      "intermediate_aerodynamic_rotation_matrix_variable",
      "relative_body_aerodynamic_orientation_angle_variable",
      "body_fixed_airspeed_based_velocity_variable",
      "total_aerodynamic_g_load_variable",
      "stagnation_point_heat_flux_dependent_variable",
      "local_temperature_dependent_variable",
      "geodetic_latitude_dependent_variable",
      "body_fixed_groundspeed_based_velocity_variable" }

RelativeStateVariables ==
    { "relative_speed_dependent_variable", "relative_position_dependent_variable",
      "relative_distance_dependent_variable", "relative_velocity_dependent_variable",
      "keplerian_state_dependent_variable",
      "modified_equinocial_state_dependent_variable",
      "lvlh_to_inertial_frame_rotation_dependent_variable",
      "periapsis_altitude_dependent_variable" }

BodyFixedPositionVariables ==
    { "body_fixed_relative_cartesian_position", "body_fixed_relative_spherical_position" }

NoUpdateVariables ==
    { "total_acceleration_norm_dependent_variable",
      "single_acceleration_norm_dependent_variable",
      "total_acceleration_dependent_variable",
      "single_acceleration_dependent_variable",
      "total_mass_rate_dependent_variables",
      "total_torque_norm_dependent_variable",
      "single_torque_norm_dependent_variable",
      "total_torque_dependent_variable",
      "single_torque_dependent_variable",
      "spherical_harmonic_acceleration_terms_dependent_variable" }

KnownDependentVariables ==
    AerodynamicVariables \cup RelativeStateVariables \cup BodyFixedPositionVariables
    \cup NoUpdateVariables
    \cup { "rotation_matrix_to_body_fixed_frame_variable",
           "control_surface_deflection_dependent_variable",
           "radiation_pressure_dependent_variable" }

\* SingleDependentVariableSaveSettings
DependentVariable(type, associatedBody, secondaryBody) ==
    [ dependentVariableType |-> type,
      associatedBody |-> associatedBody,
      secondaryBody |-> secondaryBody ]

\* The relative-state cases with flight conditions on the associated body.
RelativeStateNeeds_WithFlightConditions(v) ==
    (vehicle_flight_conditions_update :> <<v.associatedBody>>)
    @@ PushBack(PushBack(EmptyUpdates,
           body_translational_state_update, v.associatedBody),
           body_translational_state_update, v.secondaryBody)

\* The cases of the relative distance, speed, position and velocity.
RelativeStateNeeds(v) ==
    PushBack(PushBack(EmptyUpdates,
        body_translational_state_update, v.associatedBody),
        body_translational_state_update, v.secondaryBody)

\* The switch on the dependent-variable type, for a known type.
VariablesToUpdate(v) ==
    LET bothStates ==
            PushBack(PushBack(EmptyUpdates,
                body_translational_state_update, v.associatedBody),
                body_translational_state_update, v.secondaryBody)
        t == v.dependentVariableType
    IN CASE t \in AerodynamicVariables ->
                (vehicle_flight_conditions_update :> <<v.associatedBody>>)
                @@ (body_rotational_state_update :> <<v.secondaryBody>>)
                @@ bothStates
         [] t \in RelativeStateVariables -> RelativeStateNeeds(v)
         [] t \in NoUpdateVariables -> EmptyUpdates
         [] t = "rotation_matrix_to_body_fixed_frame_variable" ->
                (body_rotational_state_update :> <<v.associatedBody>>)
         [] t \in BodyFixedPositionVariables ->
                bothStates @@ (body_rotational_state_update :> <<v.secondaryBody>>)
         [] t = "control_surface_deflection_dependent_variable" ->
                (vehicle_flight_conditions_update :> <<v.associatedBody>>)
         [] t = "radiation_pressure_dependent_variable" ->
                (radiation_pressure_interface_update :> <<v.associatedBody>>)
                @@ bothStates

\* The flight conditions each factory call yields.
createAtmosphericFlightConditions == "atmospheric"
createFlightConditions == "plain"

\* Flight conditions are set only when the prerequisites are there.
NewFlightConditions_OnlyWithPrerequisites(v, bodies) ==
    IF bodies[v.secondaryBody].atmosphereModel
       /\ bodies[v.associatedBody].aerodynamicCoefficientInterface
    THEN createAtmosphericFlightConditions
    ELSE "none"

\* The flight conditions the function sets on the associated body.
NewFlightConditions(v, bodies) ==
    IF bodies[v.secondaryBody].atmosphereModel
       /\ bodies[v.associatedBody].aerodynamicCoefficientInterface
    THEN createAtmosphericFlightConditions
    ELSE createFlightConditions

\* The switch without the test on the flight conditions the body has: it
\* sets new ones whenever both bodies are there.
checkAndModifyEnvironmentForDependentVariableSaving_AlwaysSets(updateType, v, bodies) ==
    IF updateType = vehicle_flight_conditions_update
    THEN IF v.associatedBody \notin DOMAIN bodies \/ v.secondaryBody \notin DOMAIN bodies
         THEN [bodyMap |-> bodies, thrown |-> TRUE]
         ELSE [ bodyMap |->
                    [bodies EXCEPT ![v.associatedBody].flightConditions =
                                       NewFlightConditions(v, bodies)],
                thrown |-> FALSE ]
    ELSE [bodyMap |-> bodies, thrown |-> FALSE]

\* The case vehicle_flight_conditions_update of the switch: the environment as
\* the call leaves it, or thrown when bodyMap.at( ) finds no such body.
checkAndModifyEnvironmentForDependentVariableSaving(updateType, v, bodies) ==
    IF updateType = vehicle_flight_conditions_update
    THEN IF v.associatedBody \notin DOMAIN bodies
         THEN [bodyMap |-> bodies, thrown |-> TRUE]
         ELSE IF bodies[v.associatedBody].flightConditions = "none"
              THEN IF v.secondaryBody \notin DOMAIN bodies
                   THEN [bodyMap |-> bodies, thrown |-> TRUE]
                   ELSE [ bodyMap |->
                              [bodies EXCEPT ![v.associatedBody].flightConditions =
                                                 NewFlightConditions(v, bodies)],
                          thrown |-> FALSE ]
              ELSE [bodyMap |-> bodies, thrown |-> FALSE]
    ELSE [bodyMap |-> bodies, thrown |-> FALSE]

\* The update set of one dependent variable and the environment as the call
\* leaves it.
createEnvironmentUpdaterSettingsForDependentVariables(v, bodies) ==
    IF v.dependentVariableType \notin KnownDependentVariables
    THEN [updates |-> EmptyUpdates, outcome |-> "error", bodyMap |-> bodies]
    ELSE LET variablesToUpdate == VariablesToUpdate(v) IN
         IF vehicle_flight_conditions_update \in DOMAIN variablesToUpdate
         THEN LET r == checkAndModifyEnvironmentForDependentVariableSaving(
                           vehicle_flight_conditions_update, v, bodies)
              IN IF r.thrown
                 THEN [updates |-> EmptyUpdates, outcome |-> "error", bodyMap |-> r.bodyMap]
                 ELSE [updates |-> variablesToUpdate, outcome |-> "ok", bodyMap |-> r.bodyMap]
         ELSE [updates |-> variablesToUpdate, outcome |-> "ok", bodyMap |-> bodies]

---------------------------------------------------------------------------
(* createEnvironmentUpdaterSettings, for dependent-variable save settings  *)

\* The loop over the list of dependent variables, from index i on.
RECURSIVE DependentVariablesLoop(_, _, _, _)
DependentVariablesLoop(environmentModelsToUpdate, dependentVariableList, i, bodies) ==
    IF i > Len(dependentVariableList)
    THEN [updates |-> environmentModelsToUpdate, outcome |-> "ok", bodyMap |-> bodies]
    ELSE LET current == createEnvironmentUpdaterSettingsForDependentVariables(
                            dependentVariableList[i], bodies)
         IN IF current.outcome = "error" THEN current
            ELSE DependentVariablesLoop(
                     addEnvironmentUpdates(environmentModelsToUpdate, current.updates),
                     dependentVariableList, i + 1, current.bodyMap)

\* boost::shared_ptr< DependentVariableSaveSettings >: null, or the settings
\* with their list of dependent variables.
NoSaveSettings == [isNull |-> TRUE, dependentVariables |-> <<>>]
SaveSettings(list) == [isNull |-> FALSE, dependentVariables |-> list]

createEnvironmentUpdaterSettings_DependentVariables(dependentVariableSaveSettings, bodies) ==
    IF dependentVariableSaveSettings.isNull
    THEN [updates |-> EmptyUpdates, outcome |-> "ok", bodyMap |-> bodies]
    ELSE DependentVariablesLoop(EmptyUpdates, dependentVariableSaveSettings.dependentVariables,
                                1, bodies)

---------------------------------------------------------------------------
(* createEnvironmentUpdaterSettings, for termination settings              *)

\* PropagationTerminationSettings and its two derived classes.
TerminationSettings(type) ==
    [ terminationType |-> type,
      dependentVariableSettings |-> DependentVariable("", "", ""),
      terminationSettings |-> <<>> ]

RECURSIVE createEnvironmentUpdaterSettings_Termination(_, _)
RECURSIVE HybridTerminationLoop(_, _, _, _)

\* The loop that stops after the first child.
HybridTerminationLoop_FirstChildOnly(environmentModelsToUpdate, children, i, bodies) ==
    IF i > Len(children) \/ i > 1
    THEN [updates |-> environmentModelsToUpdate, outcome |-> "ok", bodyMap |-> bodies]
    ELSE LET single == createEnvironmentUpdaterSettings_Termination(children[i], bodies)
         IN IF single.outcome = "error" THEN single
            ELSE [ updates |-> addEnvironmentUpdates(environmentModelsToUpdate, single.updates),
                   outcome |-> "ok", bodyMap |-> single.bodyMap ]

\* The loop over the children of a hybrid condition, from index i on.
HybridTerminationLoop(environmentModelsToUpdate, children, i, bodies) ==
    IF i > Len(children)
    THEN [updates |-> environmentModelsToUpdate, outcome |-> "ok", bodyMap |-> bodies]
    ELSE LET single == createEnvironmentUpdaterSettings_Termination(children[i], bodies)
         IN IF single.outcome = "error" THEN single
            ELSE HybridTerminationLoop(
                     addEnvironmentUpdates(environmentModelsToUpdate, single.updates),
                     children, i + 1, single.bodyMap)

createEnvironmentUpdaterSettings_Termination(terminationSettings, bodies) ==
    LET t == terminationSettings.terminationType IN
    CASE t = "time_stopping_condition" ->
             [updates |-> EmptyUpdates, outcome |-> "ok", bodyMap |-> bodies]
      [] t = "cpu_time_stopping_condition" ->
             [updates |-> EmptyUpdates, outcome |-> "ok", bodyMap |-> bodies]
      [] t = "dependent_variable_stopping_condition" ->
             LET single == createEnvironmentUpdaterSettingsForDependentVariables(
                               terminationSettings.dependentVariableSettings, bodies)
             IN IF single.outcome = "error" THEN single
                ELSE [ updates |-> addEnvironmentUpdates(EmptyUpdates, single.updates),
                       outcome |-> "ok", bodyMap |-> single.bodyMap ]
      [] t = "hybrid_stopping_condition" ->
             HybridTerminationLoop(EmptyUpdates, terminationSettings.terminationSettings, 1, bodies)
      [] OTHER -> [updates |-> EmptyUpdates, outcome |-> "error", bodyMap |-> bodies]

---------------------------------------------------------------------------
(* createFullEnvironmentUpdaterSettings                                    *)

\* One push per radiation-pressure interface (source) of the body.
RECURSIVE PushInterfaces(_, _, _)
PushInterfaces(needs, name, n) ==
    IF n = 0 THEN needs
    ELSE PushInterfaces(PushBack(needs, radiation_pressure_interface_update, name), name, n - 1)

\* The needs with the rotation read from the rotational ephemeris only.
FullUpdateNeeds_RotationalEphemerisOnly(name, body) ==
    LET n1 == IF body.flightConditions # "none"
              THEN PushBack(EmptyUpdates, vehicle_flight_conditions_update, name)
              ELSE EmptyUpdates
        n2 == PushInterfaces(n1, name, Cardinality(body.radiationPressureInterfaces))
        n3 == IF body.rotationalEphemeris
              THEN PushBack(n2, body_rotational_state_update, name)
              ELSE n2
        n4 == IF IsTimeDependentSphericalHarmonicsGravityField(body.gravityFieldModel)
              THEN PushBack(n3, spherical_harmonic_gravity_field_update, name)
              ELSE n3
    IN PushBack(n4, body_mass_update, name)

\* The needs collected for one body from the sub-models it has.
FullUpdateNeeds(name, body) ==
    LET n1 == IF body.flightConditions # "none"
              THEN PushBack(EmptyUpdates, vehicle_flight_conditions_update, name)
              ELSE EmptyUpdates
        n2 == PushInterfaces(n1, name, Cardinality(body.radiationPressureInterfaces))
        n3 == IF body.rotationalEphemeris \/ body.dependentOrientationCalculator
              THEN PushBack(n2, body_rotational_state_update, name)
              ELSE n2
        n4 == IF IsTimeDependentSphericalHarmonicsGravityField(body.gravityFieldModel)
              THEN PushBack(n3, spherical_harmonic_gravity_field_update, name)
              ELSE n3
    IN PushBack(n4, body_mass_update, name)

\* The loop over the bodies of the environment, from the k-th on.
RECURSIVE FullUpdateLoop(_, _, _)
FullUpdateLoop(environmentModelsToUpdate, k, bodies) ==
    LET names == SortedKeys(DOMAIN bodies) IN
    IF k > Len(names) THEN Returned(environmentModelsToUpdate)
    ELSE LET single == FullUpdateNeeds(names[k], bodies[names[k]])
         IN IF checkValidityOfRequiredEnvironmentUpdates(single, bodies) = "error"
            THEN Thrown
            ELSE FullUpdateLoop(addEnvironmentUpdates(environmentModelsToUpdate, single),
                                k + 1, bodies)

createFullEnvironmentUpdaterSettings(bodies) == FullUpdateLoop(EmptyUpdates, 1, bodies)

---------------------------------------------------------------------------
(* removePropagatedStatesFomEnvironmentUpdates                             *)

\* IntegratedStateType, in the iteration order of the integrated-state list.
\* A kind outside the switch stands last.
IntegratedStateOrder ==
    << "translational_state", "rotational_state", "body_mass_state", "custom_state",
       "unrecognized_state" >>

\* The kinds of an integrated-state list, in iteration order.
StateTypesOf(l) == SelectSeq(IntegratedStateOrder, LAMBDA t : t \in DOMAIN l)

\* std::find: the index of the first element equal to name, 0 for end( ).
RECURSIVE FindFrom(_, _, _)
FindFrom(names, name, i) ==
    IF i > Len(names) THEN 0
    ELSE IF names[i] = name THEN i
    ELSE FindFrom(names, name, i + 1)

Find(names, name) == FindFrom(names, name, 1)

\* Erase that drops every element equal to the one at index i.
Erase_AllEqual(names, i) == SelectSeq(names, LAMBDA n : n # names[i])

\* std::vector::erase of the element at index i.
Erase(names, i) == SubSeq(names, 1, i - 1) \o SubSeq(names, i + 1, Len(names))

\* One case of the switch: the body is looked up under facet and, when found,
\* its first occurrence is erased and the list written back.
RemoveFromFacet(environmentModelsToUpdate, facet, name) ==
    IF facet \in DOMAIN environmentModelsToUpdate
    THEN LET bodiesToUpdate == environmentModelsToUpdate[facet]
             findIterator == Find(bodiesToUpdate, name)
         IN IF findIterator # 0
            THEN [environmentModelsToUpdate EXCEPT ![facet] = Erase(bodiesToUpdate, findIterator)]
            ELSE environmentModelsToUpdate
    ELSE environmentModelsToUpdate

\* The facet pruned for a propagated state of the given kind.
FacetOfStateType(t) ==
    CASE t = "translational_state" -> body_translational_state_update
      [] t = "rotational_state" -> body_rotational_state_update
      [] t = "body_mass_state" -> body_mass_update

\* The inner loop over the bodies propagated for one kind, from index i on.
RECURSIVE RemoveBodies(_, _, _, _)
RemoveBodies(environmentModelsToUpdate, t, bodies, i) ==
    IF i > Len(bodies) THEN [updates |-> environmentModelsToUpdate, outcome |-> "ok"]
    ELSE IF t \in {"translational_state", "rotational_state", "body_mass_state"}
         THEN RemoveBodies(
                  RemoveFromFacet(environmentModelsToUpdate, FacetOfStateType(t), bodies[i][1]),
                  t, bodies, i + 1)
    ELSE IF t = "custom_state"
         THEN RemoveBodies(environmentModelsToUpdate, t, bodies, i + 1)
    ELSE [updates |-> environmentModelsToUpdate, outcome |-> "error"]

\* The outer loop over the propagated kinds, from the k-th entry on.
RECURSIVE RemoveStateTypes(_, _, _)
RemoveStateTypes(environmentModelsToUpdate, integratedStateList, k) ==
    LET types == StateTypesOf(integratedStateList) IN
    IF k > Len(types) THEN [updates |-> environmentModelsToUpdate, outcome |-> "ok"]
    ELSE LET r == RemoveBodies(environmentModelsToUpdate, types[k],
                               integratedStateList[types[k]], 1)
         IN IF r.outcome = "error" THEN r
            ELSE RemoveStateTypes(r.updates, integratedStateList, k + 1)

\* The update set as the call leaves it (it is changed in place, also when the
\* call throws part-way), and whether the call threw.
removePropagatedStatesFomEnvironmentUpdates(environmentModelsToUpdate, integratedStateList) ==
    RemoveStateTypes(environmentModelsToUpdate, integratedStateList, 1)

---------------------------------------------------------------------------
(* Inputs of removePropagatedStates: integrated-state lists.               *)

\* An entry is a kind and the pair (body name, reference point) listed under
\* it; only the name is read, and only for the kinds that are pruned.
PropagatedEntries ==
    { <<t, <<b, "">> >> :
          t \in {"translational_state", "rotational_state", "body_mass_state"},
          b \in {"Earth", "Vehicle"} }
    \cup
    { <<t, <<"Vehicle", "">> >> : t \in {"custom_state", "unrecognized_state"} }

RECURSIVE StateListsOfSize(_)
StateListsOfSize(n) ==
    IF n = 0 THEN {<<>>}
    ELSE { PushBack(l, e[1], e[2]) : l \in StateListsOfSize(n - 1), e \in PropagatedEntries }

\* Lists of up to MaxPropagated entries, one of which may be an unrecognised
\* kind that lists no body.
IntegratedStateLists ==
    UNION { StateListsOfSize(n) : n \in 0..MaxPropagated }
    \cup
    { l @@ ("unrecognized_state" :> <<>>) :
          l \in { x \in UNION { StateListsOfSize(n) : n \in 0..(MaxPropagated - 1) } :
                      "unrecognized_state" \notin DOMAIN x } }

---------------------------------------------------------------------------
(* Inputs of checkValidity: requested update sets.                         *)

\* Names a request may carry: a body name, or "" for a global requirement.
RequestNames == BodyNames \cup {""}

RECURSIVE RequestsOfSize(_)
RequestsOfSize(n) ==
    IF n = 0 THEN {EmptyUpdates}
    ELSE { PushBack(m, f, b) : m \in RequestsOfSize(n - 1), f \in Facets, b \in RequestNames }

RequestedUpdateSets == UNION { RequestsOfSize(n) : n \in 0..MaxRequested }

---------------------------------------------------------------------------
(* Inputs of the producers from force, torque and mass-rate models.        *)

\* map[ accelerated ][ exerting ].push_back( model )
AddModel(map, accelerated, exerting, model) ==
    IF accelerated \in DOMAIN map
    THEN IF exerting \in DOMAIN map[accelerated]
         THEN [map EXCEPT ![accelerated][exerting] = Append(@, model)]
         ELSE [map EXCEPT ![accelerated] = @ @@ (exerting :> <<model>>)]
    ELSE map @@ (accelerated :> (exerting :> <<model>>))

\* The maps built from up to n entries <<accelerated, exerting, model>>.
RECURSIVE ModelMapsOfSize(_, _)
ModelMapsOfSize(entries, n) ==
    IF n = 0 THEN {<<>>}
    ELSE { AddModel(m, e[1], e[2], e[3]) : m \in ModelMapsOfSize(entries, n - 1), e \in entries }

ModelMaps(entries) == UNION { ModelMapsOfSize(entries, n) : n \in 0..MaxModels }

\* What a thrust model may require: nothing, the flight conditions of the
\* vehicle, or the state of the vehicle it is attached to.
ThrustModel(required) ==
    [AccelerationModel("thrust_acceleration") EXCEPT !.requiredModelUpdates = required]

ThirdBodyModel(type, central, castSucceeds) ==
    [AccelerationModel(type) EXCEPT !.centralBodyName = central,
                                    !.isOfDeclaredClass = castSucceeds]

RelativisticModel(deSitter, primary) ==
    [AccelerationModel("relativistic_correction_acceleration")
        EXCEPT !.calculateDeSitterCorrection = deSitter, !.primaryBodyName = primary]

AccelerationEntries ==
    { <<"Vehicle", "Earth", AccelerationModel(t)>> :
          t \in { "central_gravity", "spherical_harmonic_gravity",
                  "mutual_spherical_harmonic_gravity", "aerodynamic",
                  "direct_tidal_dissipation_acceleration", "empirical_acceleration",
                  "undefined_acceleration" } }
    \cup
    { <<"Vehicle", "Sun", AccelerationModel(t)>> :
          t \in {"central_gravity", "cannon_ball_radiation_pressure"} }
    \cup
    { <<"Vehicle", "Sun", ThirdBodyModel(t, "Earth", TRUE)>> : t \in ThirdBodyTypes }
    \cup
    { <<"Vehicle", "Moon", ThirdBodyModel(t, "Earth", FALSE)>> : t \in ThirdBodyTypes }
    \cup
    { <<"Vehicle", "Earth", RelativisticModel(FALSE, "Sun")>>,
      <<"Vehicle", "Earth", RelativisticModel(TRUE, "Sun")>>,
      <<"Vehicle", "Vehicle", ThrustModel(EmptyUpdates)>>,
      <<"Vehicle", "Vehicle",
        ThrustModel(body_translational_state_update :> <<"Vehicle">>)>>,
      <<"Earth", "Sun", AccelerationModel("central_gravity")>>,
      <<"Earth", "Vehicle", AccelerationModel("central_gravity")>>,
      <<"Sun", "Earth", ThirdBodyModel("third_body_central_gravity", "Vehicle", TRUE)>> }

AccelerationMaps == ModelMaps(AccelerationEntries)

TorqueEntries ==
    { <<a, e, t>> :
          a \in {"Vehicle"}, e \in {"Earth", "Sun"},
          t \in {"second_order_gravitational_torque", "aerodynamic_torque",
                 "undefined_torque"} }

TorqueModelMaps == ModelMaps(TorqueEntries)

\* massRateModels[ body ].push_back( model )
RECURSIVE MassRateMapsOfSize(_)
MassRateMapsOfSize(n) ==
    IF n = 0 THEN {<<>>}
    ELSE { PushBack(m, b, t) :
               m \in MassRateMapsOfSize(n - 1), b \in {"Vehicle", "Moon"},
               t \in KnownMassRateModels \cup {"undefined_mass_rate_model"} }

MassRateModelMaps == UNION { MassRateMapsOfSize(n) : n \in 0..MaxModels }

---------------------------------------------------------------------------
(* Inputs of the producers from dependent variables and termination        *)
(* settings.                                                               *)

\* Every type of the table, and one outside it, on the vehicle or on a body
\* the environment does not hold, relative to any body.
SingleDependentVariables ==
    { DependentVariable(t, a, b) :
          t \in KnownDependentVariables \cup {"undefined_dependent_variable"},
          a \in {"Vehicle", "Moon"}, b \in BodyNames }

\* One type per entry of the table, and one outside it.
ListedVariableTypes ==
    { "altitude_dependent_variable", "relative_position_dependent_variable",
      "total_acceleration_norm_dependent_variable",
      "rotation_matrix_to_body_fixed_frame_variable",
      "body_fixed_relative_cartesian_position",
      "control_surface_deflection_dependent_variable",
      "radiation_pressure_dependent_variable", "undefined_dependent_variable" }

ListedDependentVariables ==
    { DependentVariable(t, "Vehicle", "Earth") : t \in ListedVariableTypes }
    \cup
    { DependentVariable("altitude_dependent_variable", "Vehicle", "Sun"),
      DependentVariable("altitude_dependent_variable", "Vehicle", "Moon"),
      DependentVariable("altitude_dependent_variable", "Moon", "Earth"),
      DependentVariable("relative_position_dependent_variable", "Vehicle", "Vehicle"),
      DependentVariable("relative_position_dependent_variable", "Earth", "Sun"),
      DependentVariable("relative_position_dependent_variable", "Moon", "Earth") }

RECURSIVE VariableListsOfLength(_)
VariableListsOfLength(n) ==
    IF n = 0 THEN {<<>>}
    ELSE { Append(l, v) : l \in VariableListsOfLength(n - 1), v \in ListedDependentVariables }

\* DependentVariableSaveSettings, or none.
DependentVariableSaveSettings ==
    { SaveSettings(l) :
          l \in UNION { VariableListsOfLength(n) : n \in 0..MaxVariables } }
    \cup {NoSaveSettings}

DependentVariableTermination(v) ==
    [TerminationSettings("dependent_variable_stopping_condition")
        EXCEPT !.dependentVariableSettings = v]

HybridTermination(children) ==
    [TerminationSettings("hybrid_stopping_condition") EXCEPT !.terminationSettings = children]

TerminationLeaves ==
    { TerminationSettings(t) :
          t \in {"time_stopping_condition", "cpu_time_stopping_condition",
                 "undefined_stopping_condition"} }
    \cup
    { DependentVariableTermination(v) :
          v \in { DependentVariable("altitude_dependent_variable", "Vehicle", "Earth"),
                  DependentVariable("relative_position_dependent_variable", "Vehicle", "Earth"),
                  DependentVariable("relative_position_dependent_variable", "Moon", "Earth"),
                  DependentVariable("undefined_dependent_variable", "Vehicle", "Earth") } }

\* The trees of exactly n nodes, and the sequences of trees of n nodes in all.
RECURSIVE TerminationTrees(_)
RECURSIVE TerminationForests(_)
TerminationTrees(n) ==
    IF n = 0 THEN {}
    ELSE (IF n = 1 THEN TerminationLeaves ELSE {})
         \cup { HybridTermination(f) : f \in TerminationForests(n - 1) }

TerminationForests(n) ==
    IF n = 0 THEN {<<>>}
    ELSE UNION { { <<t>> \o f : t \in TerminationTrees(k), f \in TerminationForests(n - k) } :
                     k \in 1..n }

TerminationSettingsTrees == UNION { TerminationTrees(n) : n \in 1..MaxTerminationNodes }

---------------------------------------------------------------------------
(* Actions.                                                                *)

Producers ==
    { "createTranslationalEquationsOfMotionEnvironmentUpdaterSettings",
      "createRotationalEquationsOfMotionEnvironmentUpdaterSettings",
      "createMassPropagationEnvironmentUpdaterSettings",
      "createEnvironmentUpdaterSettingsForDependentVariables",
      "createEnvironmentUpdaterSettings_DependentVariables",
      "createEnvironmentUpdaterSettings_Termination",
      "createFullEnvironmentUpdaterSettings" }

Init ==
    /\ bodyMap \in Environments
    /\ op = "idle"
    /\ args = <<>>
    /\ updates = EmptyUpdates
    /\ outcome = "ok"
    /\ built = NoProduct
    /\ constructionLog = <<>>

\* checkValidityOfRequiredEnvironmentUpdates( requestedUpdates, bodyMap )
CheckValidity ==
    /\ op = "idle"
    /\ \E requestedUpdates \in RequestedUpdateSets :
          /\ op' = "checkValidityOfRequiredEnvironmentUpdates"
          /\ args' = requestedUpdates
          /\ updates' = requestedUpdates
          /\ outcome' = checkValidityOfRequiredEnvironmentUpdates(requestedUpdates, bodyMap)
          /\ UNCHANGED <<bodyMap, built, constructionLog>>

\* A producer that reads the environment: its result becomes the state.
Produce(name, input, r) ==
    /\ op' = name
    /\ args' = input
    /\ updates' = r.updates
    /\ outcome' = r.outcome
    /\ UNCHANGED <<bodyMap, built, constructionLog>>

\* A producer of the dependent-variable path: it may also set flight conditions.
ProduceAndModify(name, input, r) ==
    /\ op' = name
    /\ args' = input
    /\ updates' = r.updates
    /\ outcome' = r.outcome
    /\ bodyMap' = r.bodyMap
    /\ UNCHANGED <<built, constructionLog>>

FromForceModels ==
    /\ op = "idle"
    /\ \E accelerationMap \in AccelerationMaps :
          Produce("createTranslationalEquationsOfMotionEnvironmentUpdaterSettings",
                  accelerationMap,
                  createTranslationalEquationsOfMotionEnvironmentUpdaterSettings(
                      accelerationMap, bodyMap))

FromTorqueModels ==
    /\ op = "idle"
    /\ \E torqueModels \in TorqueModelMaps :
          Produce("createRotationalEquationsOfMotionEnvironmentUpdaterSettings",
                  torqueModels,
                  createRotationalEquationsOfMotionEnvironmentUpdaterSettings(
                      torqueModels, bodyMap))

FromMassRateModels ==
    /\ op = "idle"
    /\ \E massRateModels \in MassRateModelMaps :
          Produce("createMassPropagationEnvironmentUpdaterSettings",
                  massRateModels,
                  createMassPropagationEnvironmentUpdaterSettings(massRateModels, bodyMap))

FromSingleDependentVariable ==
    /\ op = "idle"
    /\ \E v \in SingleDependentVariables :
          ProduceAndModify("createEnvironmentUpdaterSettingsForDependentVariables", v,
                           createEnvironmentUpdaterSettingsForDependentVariables(v, bodyMap))

FromDependentVariables ==
    /\ op = "idle"
    /\ \E settings \in DependentVariableSaveSettings :
          ProduceAndModify("createEnvironmentUpdaterSettings_DependentVariables", settings,
                           createEnvironmentUpdaterSettings_DependentVariables(settings, bodyMap))

\* The caller calls the producer of a single dependent variable again with
\* the request of the call that just returned.
FromSingleDependentVariableAgain ==
    /\ op = "createEnvironmentUpdaterSettingsForDependentVariables"
    /\ outcome = "ok"
    /\ ProduceAndModify("createEnvironmentUpdaterSettingsForDependentVariables_again", args,
                        createEnvironmentUpdaterSettingsForDependentVariables(args, bodyMap))

\* The caller calls the producer of the dependent-variable save settings
\* again with the request of the call that just returned.
FromDependentVariablesAgain ==
    /\ op = "createEnvironmentUpdaterSettings_DependentVariables"
    /\ outcome = "ok"
    /\ ProduceAndModify("createEnvironmentUpdaterSettings_DependentVariables_again", args,
                        createEnvironmentUpdaterSettings_DependentVariables(args, bodyMap))

FromTerminationSettings ==
    /\ op = "idle"
    /\ \E settings \in TerminationSettingsTrees :
          ProduceAndModify("createEnvironmentUpdaterSettings_Termination", settings,
                           createEnvironmentUpdaterSettings_Termination(settings, bodyMap))

FullEnvironmentUpdate ==
    /\ op = "idle"
    /\ Produce("createFullEnvironmentUpdaterSettings", <<>>,
               createFullEnvironmentUpdaterSettings(bodyMap))

\* The caller keeps the update set a producer returned and lets go of the
\* settings it was made from.
KeepUpdates ==
    /\ op \in Producers
    /\ outcome = "ok"
    /\ op' = "kept"
    /\ args' = <<>>
    /\ UNCHANGED <<bodyMap, updates, outcome, built, constructionLog>>

\* removePropagatedStatesFomEnvironmentUpdates( updates, integratedStateList )
\* on the update set the caller kept.
RemovePropagatedStates ==
    /\ op = "kept"
    /\ \E integratedStateList \in IntegratedStateLists :
          LET r == removePropagatedStatesFomEnvironmentUpdates(updates, integratedStateList)
          IN /\ op' = "removePropagatedStatesFomEnvironmentUpdates"
             /\ args' = integratedStateList
             /\ updates' = r.updates
             /\ outcome' = r.outcome
             /\ UNCHANGED <<bodyMap, built, constructionLog>>

\* The caller drops the result of the last operation.
Discard ==
    /\ op # "idle"
    /\ op' = "idle"
    /\ args' = <<>>
    /\ updates' = EmptyUpdates
    /\ outcome' = "ok"
    /\ UNCHANGED <<bodyMap, built, constructionLog>>

Next ==
    \/ CheckValidity
    \/ FromForceModels
    \/ FromTorqueModels
    \/ FromMassRateModels
    \/ FromSingleDependentVariable
    \/ FromDependentVariables
    \/ FromSingleDependentVariableAgain
    \/ FromDependentVariablesAgain
    \/ FromTerminationSettings
    \/ FullEnvironmentUpdate
    \/ KeepUpdates
    \/ RemovePropagatedStates
    \/ Discard

Spec == Init /\ [][Next]_vars

---------------------------------------------------------------------------
(* Observation models: enumerations, link ends and settings objects.       *)

\* Largest number of link ends of one LinkEnds map.
MaxLinkEnds == 3
\* Largest number of entries of an unsorted observation-settings multimap.
MaxSettingsEntries == 2

\* A NULL boost::shared_ptr.
NULL == [class |-> "NULL"]

\* A non-empty boost::function; an empty one is NULL.
FunctionObject(name) == [class |-> "boost::function", name |-> name]

\* boost::dynamic_pointer_cast< T >( p ) != NULL.  None of the settings
\* classes of the header has a class derived from it in turn, so the cast
\* succeeds exactly on objects of class T itself.
IsA(p, T) == p.class = T

\* LinkEndType.  The roles a LinkEnds map is keyed by, in the order of the
\* enumeration, which is the order a LinkEnds map iterates in and the order
\* in which "the previous link end type" is the value minus one.  The
\* enumeration is declared outside the files at hand; reflector3 and
\* reflector4, which lie between reflector2 and receiver, are left out.
transmitter == "transmitter"
reflector1 == "reflector1"
reflector2 == "reflector2"
receiver == "receiver"
observed_body == "observed_body"
LinkEndTypeOrder == <<transmitter, reflector1, reflector2, receiver, observed_body>>
LinkEndTypes == {LinkEndTypeOrder[i] : i \in 1..Len(LinkEndTypeOrder)}

\* static_cast< int >( linkEndType ), counted from one.
LinkEndTypeIndex(t) == CHOOSE i \in 1..Len(LinkEndTypeOrder) : LinkEndTypeOrder[i] = t

\* The keys of a LinkEnds map in iteration order.
LinkEndTypesOf(linkEnds) == SelectSeq(LinkEndTypeOrder, LAMBDA t : t \in DOMAIN linkEnds)

\* LinkEndId: std::pair< body name, reference point name >.
LinkEndIds == {<<"Earth", "">>, <<"Earth", "Station">>, <<"Vehicle", "">>}

\* LinkEnds: std::map< LinkEndType, LinkEndId >, of up to MaxLinkEnds entries.
AllLinkEnds ==
    UNION {[S -> LinkEndIds] : S \in {T \in SUBSET LinkEndTypes : Cardinality(T) <= MaxLinkEnds}}

\* ObservableType.  unsupported_observable stands for an observable type
\* that no creator handles and whose size is not 1, 2 or 3.
one_way_range == "one_way_range"
angular_position == "angular_position"
position_observable == "position_observable"
one_way_doppler == "one_way_doppler"
one_way_differenced_range == "one_way_differenced_range"
n_way_range == "n_way_range"
two_way_doppler == "two_way_doppler"
unsupported_observable == "unsupported_observable"
ObservableTypes ==
    {one_way_range, angular_position, position_observable, one_way_doppler,
     one_way_differenced_range, n_way_range, two_way_doppler, unsupported_observable}

\* getObservableSize( observableType )
getObservableSize(observableType) ==
    CASE observableType \in {one_way_range, one_way_doppler, two_way_doppler,
                             one_way_differenced_range, n_way_range} -> 1
      [] observableType = angular_position -> 2
      [] observableType = position_observable -> 3
      [] OTHER -> 6

\* ObservationBiasTypes
multiple_observation_biases == "multiple_observation_biases"
constant_absolute_bias == "constant_absolute_bias"
constant_relative_bias == "constant_relative_bias"
arc_wise_constant_absolute_bias == "arc_wise_constant_absolute_bias"
arc_wise_constant_relative_bias == "arc_wise_constant_relative_bias"

\* class ObservationBiasSettings
ObservationBiasSettings(observationBiasType) ==
    [class |-> "ObservationBiasSettings", observationBiasType_ |-> observationBiasType]

\* class MultipleObservationBiasSettings
MultipleObservationBiasSettings(biasSettingsList) ==
    [class |-> "MultipleObservationBiasSettings",
     observationBiasType_ |-> multiple_observation_biases,
     biasSettingsList_ |-> biasSettingsList]

\* class ConstantObservationBiasSettings.  The bias vector is modelled by its
\* number of rows.
ConstantObservationBiasSettings(observationBias, useAbsoluteBias) ==
    [class |-> "ConstantObservationBiasSettings",
     observationBiasType_ |->
         IF useAbsoluteBias = TRUE THEN constant_absolute_bias ELSE constant_relative_bias,
     observationBias_ |-> observationBias,
     useAbsoluteBias_ |-> useAbsoluteBias]

\* class ArcWiseConstantObservationBiasSettings.  Each arc's bias vector is
\* modelled by its number of rows, the arc start times by their indices.
ArcWiseConstantObservationBiasSettings(observationBiases, linkEndForTime, useAbsoluteBias) ==
    [class |-> "ArcWiseConstantObservationBiasSettings",
     observationBiasType_ |->
         IF useAbsoluteBias = TRUE THEN arc_wise_constant_absolute_bias
                                   ELSE arc_wise_constant_relative_bias,
     arcStartTimes_ |-> [i \in 1..Len(observationBiases) |-> i],
     observationBiases_ |-> observationBiases,
     linkEndForTime_ |-> linkEndForTime,
     useAbsoluteBias_ |-> useAbsoluteBias]

\* class ObservationSettings
ObservationSettings(observableType, lightTimeCorrectionsList, biasSettings) ==
    [class |-> "ObservationSettings",
     observableType_ |-> observableType,
     lightTimeCorrectionsList_ |-> lightTimeCorrectionsList,
     biasSettings_ |-> biasSettings]

\* DopplerProperTimeRateType
custom_doppler_proper_time_rate == "custom_doppler_proper_time_rate"
direct_first_order_doppler_proper_time_rate == "direct_first_order_doppler_proper_time_rate"

\* class DopplerProperTimeRateSettings
DopplerProperTimeRateSettings(dopplerProperTimeRateType) ==
    [class |-> "DopplerProperTimeRateSettings",
     dopplerProperTimeRateType_ |-> dopplerProperTimeRateType]

\* class DirectFirstOrderDopplerProperTimeRateSettings
DirectFirstOrderDopplerProperTimeRateSettings(centralBodyName) ==
    [class |-> "DirectFirstOrderDopplerProperTimeRateSettings",
     dopplerProperTimeRateType_ |-> direct_first_order_doppler_proper_time_rate,
     centralBodyName_ |-> centralBodyName]

\* class OneWayDopplerObservationSettings
OneWayDopplerObservationSettings(lightTimeCorrectionsList, transmitterSettings, receiverSettings, biasSettings) ==
    [class |-> "OneWayDopplerObservationSettings",
     observableType_ |-> one_way_doppler,
     lightTimeCorrectionsList_ |-> lightTimeCorrectionsList,
     biasSettings_ |-> biasSettings,
     transmitterProperTimeRateSettings_ |-> transmitterSettings,
     receiverProperTimeRateSettings_ |-> receiverSettings]

\* class TwoWayDopplerObservationSettings: its own light-time correction
\* list is empty.
TwoWayDopplerObservationSettings(uplinkSettings, downlinkSettings, biasSettings) ==
    [class |-> "TwoWayDopplerObservationSettings",
     observableType_ |-> two_way_doppler,
     lightTimeCorrectionsList_ |-> <<>>,
     biasSettings_ |-> biasSettings,
     uplinkOneWayDopplerSettings_ |-> uplinkSettings,
     downlinkOneWayDopplerSettings_ |-> downlinkSettings]

\* class OneWayDifferencedRangeRateObservationSettings
OneWayDifferencedRangeRateObservationSettings(integrationTimeFunction, corrections, biasSettings) ==
    [class |-> "OneWayDifferencedRangeRateObservationSettings",
     observableType_ |-> one_way_differenced_range,
     lightTimeCorrectionsList_ |-> corrections,
     biasSettings_ |-> biasSettings,
     integrationTimeFunction_ |-> integrationTimeFunction]

\* class NWayRangeObservationSettings (the constructor taking the list of
\* one-way settings): its own light-time correction list is empty.
NWayRangeObservationSettings(oneWaySettings, retransmissionTimesFunction, biasSettings) ==
    [class |-> "NWayRangeObservationSettings",
     observableType_ |-> n_way_range,
     lightTimeCorrectionsList_ |-> <<>>,
     biasSettings_ |-> biasSettings,
     oneWayRangeObsevationSettings_ |-> oneWaySettings,
     retransmissionTimesFunction_ |-> retransmissionTimesFunction]

---------------------------------------------------------------------------
(* Observation models: what a factory yields.                              *)

\* A factory call ends by returning the object built, by throwing, or in
\* undefined behaviour (a NULL pointer was dereferenced).  constructed lists
\* the calculators the call constructed before it ended, in order of
\* construction.
Built(product, constructed) ==
    [outcome |-> "ok", product |-> product, constructed |-> constructed]
Threw(constructed) ==
    [outcome |-> "error", product |-> NoProduct, constructed |-> constructed]
UndefinedBehaviour(constructed) ==
    [outcome |-> "undefined", product |-> NoProduct, constructed |-> constructed]

\* What a call that dereferenced a NULL pointer can end in: the process is
\* stopped at the access, or the value read selects a branch that throws
\* (every branch taken on a NULL settings object throws).  It never returns
\* an object.
UndefinedOutcomes == {"crash", "error"}

\* createLightTimeCalculator( transmittingLinkEnd, receivingLinkEnd, bodyMap,
\* lightTimeCorrections ): defined outside the files at hand; it is taken to
\* return a calculator between the two link ends with the corrections given.
createLightTimeCalculator(transmittingLinkEnd, receivingLinkEnd, lightTimeCorrections) ==
    [kind |-> "LightTimeCalculator",
     transmitter |-> transmittingLinkEnd,
     receiver |-> receivingLinkEnd,
     lightTimeCorrections |-> lightTimeCorrections]

\* getLinkEndIndicesForLinkEndTypeAtObservable( observableType, linkEndType,
\* numberOfLinkEnds ).at( 0 ): defined outside the files at hand; it is taken
\* to resolve the role to its index in the observable's link-end ordering.
getLinkEndIndexForLinkEndTypeAtObservable(observableType, linkEndType, numberOfLinkEnds) ==
    [observableType |-> observableType, linkEndType |-> linkEndType,
     numberOfLinkEnds |-> numberOfLinkEnds]

---------------------------------------------------------------------------
(* createObservationBiasCalculator< ObservationSize >                      *)

\* The constant-bias cases with the check of the number of rows left out.
ConstantBiasCase_AnyLength(ObservationSize, biasSettings, absolute) ==
    IF ~ IsA(biasSettings, "ConstantObservationBiasSettings") THEN Threw(<<>>)
    ELSE IF biasSettings.useAbsoluteBias_ # absolute THEN Threw(<<>>)
    ELSE LET bias == [kind |-> IF absolute THEN "ConstantObservationBias"
                                           ELSE "ConstantRelativeObservationBias",
                      observationBias |-> biasSettings.observationBias_]
         IN Built(bias, <<bias>>)

\* The constant_absolute_bias and constant_relative_bias cases.
ConstantBiasCase(ObservationSize, biasSettings, absolute) ==
    IF ~ IsA(biasSettings, "ConstantObservationBiasSettings") THEN Threw(<<>>)
    ELSE IF biasSettings.useAbsoluteBias_ # absolute THEN Threw(<<>>)
    ELSE IF biasSettings.observationBias_ # ObservationSize THEN Threw(<<>>)
    ELSE LET bias == [kind |-> IF absolute THEN "ConstantObservationBias"
                                           ELSE "ConstantRelativeObservationBias",
                      observationBias |-> biasSettings.observationBias_]
         IN Built(bias, <<bias>>)

\* The arc_wise_constant_absolute_bias and arc_wise_constant_relative_bias
\* cases.
ArcWiseBiasCase(ObservationSize, linkEnds, observableType, biasSettings, absolute) ==
    IF ~ IsA(biasSettings, "ArcWiseConstantObservationBiasSettings") THEN Threw(<<>>)
    ELSE IF biasSettings.useAbsoluteBias_ # absolute THEN Threw(<<>>)
    ELSE IF \E i \in 1..Len(biasSettings.observationBiases_) :
                biasSettings.observationBiases_[i] # ObservationSize
         THEN Threw(<<>>)
    ELSE LET bias == [kind |-> IF absolute THEN "ConstantArcWiseObservationBias"
                                           ELSE "ConstantRelativeArcWiseObservationBias",
                      arcStartTimes |-> biasSettings.arcStartTimes_,
                      observationBiases |-> biasSettings.observationBiases_,
                      linkEndIndex |->
                          getLinkEndIndexForLinkEndTypeAtObservable(
                              observableType, biasSettings.linkEndForTime_,
                              Cardinality(DOMAIN linkEnds))]
         IN Built(bias, <<bias>>)

RECURSIVE createObservationBiasCalculator(_, _, _, _)
RECURSIVE MultipleBiasLoop(_, _, _, _, _, _, _)

\* One pass of the loop that goes on to the next element when the creation
\* of the bias of element i failed.
MultipleBiasStep_SkipsFailures(ObservationSize, linkEnds, observableType, list, i, biases, constructed, r) ==
    IF r.outcome # "ok"
    THEN MultipleBiasLoop(ObservationSize, linkEnds, observableType, list, i + 1,
                          biases, constructed)
    ELSE MultipleBiasLoop(ObservationSize, linkEnds, observableType, list, i + 1,
                          Append(biases, r.product), constructed \o r.constructed)

\* One pass of the loop of the multiple_observation_biases case: r is what
\* the creation of the bias of element i of the list ended in.
MultipleBiasStep(ObservationSize, linkEnds, observableType, list, i, biases, constructed, r) ==
    IF r.outcome # "ok"
    THEN [r EXCEPT !.constructed = constructed \o r.constructed]
    ELSE MultipleBiasLoop(ObservationSize, linkEnds, observableType, list, i + 1,
                          Append(biases, r.product), constructed \o r.constructed)

\* The loop of the multiple_observation_biases case from element i of the
\* list of bias settings on; biases holds the biases made so far.
MultipleBiasLoop(ObservationSize, linkEnds, observableType, list, i, biases, constructed) ==
    IF i > Len(list)
    THEN Built([kind |-> "MultiTypeObservationBias", biasList |-> biases],
               Append(constructed, [kind |-> "MultiTypeObservationBias", biasList |-> biases]))
    ELSE MultipleBiasStep(ObservationSize, linkEnds, observableType, list, i, biases,
                          constructed,
                          createObservationBiasCalculator(ObservationSize, linkEnds,
                                                          observableType, list[i]))

\* createObservationBiasCalculator< ObservationSize >( linkEnds,
\* observableType, biasSettings, bodyMap ); the environment is not read.
createObservationBiasCalculator(ObservationSize, linkEnds, observableType, biasSettings) ==
    IF biasSettings = NULL THEN UndefinedBehaviour(<<>>)
    ELSE CASE biasSettings.observationBiasType_ = constant_absolute_bias ->
                  ConstantBiasCase(ObservationSize, biasSettings, TRUE)
           [] biasSettings.observationBiasType_ = arc_wise_constant_absolute_bias ->
                  ArcWiseBiasCase(ObservationSize, linkEnds, observableType, biasSettings, TRUE)
           [] biasSettings.observationBiasType_ = constant_relative_bias ->
                  ConstantBiasCase(ObservationSize, biasSettings, FALSE)
           [] biasSettings.observationBiasType_ = arc_wise_constant_relative_bias ->
                  ArcWiseBiasCase(ObservationSize, linkEnds, observableType, biasSettings, FALSE)
           [] biasSettings.observationBiasType_ = multiple_observation_biases ->
                  IF ~ IsA(biasSettings, "MultipleObservationBiasSettings") THEN Threw(<<>>)
                  ELSE MultipleBiasLoop(ObservationSize, linkEnds, observableType,
                                        biasSettings.biasSettingsList_, 1, <<>>, <<>>)
           [] OTHER -> Threw(<<>>)

\* The bias of a creator: none when the settings carry no bias settings.
\*     if( observationSettings->biasSettings_ != NULL ) { observationBias = ... }
CreatorBias(ObservationSize, linkEnds, observationSettings) ==
    IF observationSettings.biasSettings_ # NULL
    THEN createObservationBiasCalculator(ObservationSize, linkEnds,
                                         observationSettings.observableType_,
                                         observationSettings.biasSettings_)
    ELSE Built(NULL, <<>>)

---------------------------------------------------------------------------
(* createOneWayDopplerProperTimeCalculator                                 *)

\* The check of the link ends against the central body that looks at the
\* receiver only.
CentralBodyAtLinkEnd_ReceiverOnly(linkEnds, centralBody) ==
    linkEnds[receiver] = <<centralBody, "">>

\* Whether the receiver or the transmitter is the central body itself: the
\* negation of
\*     ( linkEnds.at( receiver ) != referencePointId ) &&
\*     ( linkEnds.at( transmitter ) != referencePointId )
\* in which the transmitter is not looked at when the receiver is the
\* central body.
CentralBodyAtLinkEnd(linkEnds, centralBody) ==
    \/ linkEnds[receiver] = <<centralBody, "">>
    \/ linkEnds[transmitter] = <<centralBody, "">>

\* The throw statement a call of the factory on a settings object ends at,
\* "none" if it ends at none: the statements in the order the code reaches
\* them.  "out_of_range" is the exception of bodyMap.at and linkEnds.at for
\* a key that is not there.
ProperTimeFailure(properTimeRateSettings, linkEnds, bodies, linkEndForCalculator) ==
    IF properTimeRateSettings.dopplerProperTimeRateType_
           # direct_first_order_doppler_proper_time_rate
    THEN "did_not_recognize_type"
    ELSE IF ~ IsA(properTimeRateSettings, "DirectFirstOrderDopplerProperTimeRateSettings")
    THEN "input_type_inconsistent"
    ELSE IF linkEndForCalculator \notin DOMAIN linkEnds THEN "did_not_find_link_end"
    ELSE IF properTimeRateSettings.centralBodyName_ \notin DOMAIN bodies
    THEN "out_of_range"
    ELSE IF bodies[properTimeRateSettings.centralBodyName_].gravityFieldModel = "none"
    THEN "no_gravity_field_found"
    ELSE IF receiver \notin DOMAIN linkEnds THEN "out_of_range"
    ELSE IF /\ linkEnds[receiver] # <<properTimeRateSettings.centralBodyName_, "">>
            /\ transmitter \notin DOMAIN linkEnds
    THEN "out_of_range"
    ELSE IF CentralBodyAtLinkEnd(linkEnds, properTimeRateSettings.centralBodyName_)
    THEN "reference_point_as_link_end_not_yet_implemented"
    ELSE "none"

\* createOneWayDopplerProperTimeCalculator( properTimeRateSettings, linkEnds,
\* bodyMap, linkEndForCalculator ): the settings pointer is read unchecked.
createOneWayDopplerProperTimeCalculator(properTimeRateSettings, linkEnds, bodies, linkEndForCalculator) ==
    IF properTimeRateSettings = NULL THEN UndefinedBehaviour(<<>>)
    ELSE IF ProperTimeFailure(properTimeRateSettings, linkEnds, bodies,
                              linkEndForCalculator) # "none"
    THEN Threw(<<>>)
    ELSE LET calculator ==
                 [kind |-> "DirectFirstOrderDopplerProperTimeRateInterface",
                  linkEndForCalculator |-> linkEndForCalculator,
                  centralBody |-> properTimeRateSettings.centralBodyName_]
         IN Built(calculator, <<calculator>>)

---------------------------------------------------------------------------
(* ObservationModelCreator< 1 >::createObservationModel                    *)

\* What a call ends in when a call it made ended in r after it had itself
\* constructed the calculators of before.
After(before, r) == [r EXCEPT !.constructed = before \o r.constructed]

\* The checks the one-way observables share with the number of link ends
\* left out.
OneWayLinkEndsValid_RolesOnly(linkEnds) ==
    /\ receiver \in DOMAIN linkEnds
    /\ transmitter \in DOMAIN linkEnds

\* The checks the one-way observables share: exactly two link ends, a
\* receiver and a transmitter.
\*     if( linkEnds.size( ) != 2 ) throw; if( linkEnds.count( receiver ) == 0 ) throw; ...
OneWayLinkEndsValid(linkEnds) ==
    /\ Cardinality(DOMAIN linkEnds) = 2
    /\ receiver \in DOMAIN linkEnds
    /\ transmitter \in DOMAIN linkEnds

\* The light-time calculator from the transmitter to the receiver with the
\* light-time corrections of the settings.
TransmitterToReceiver(linkEnds, observationSettings) ==
    createLightTimeCalculator(linkEnds[transmitter], linkEnds[receiver],
                              observationSettings.lightTimeCorrectionsList_)

\* The one-way range model, b being what the creation of the bias ended in.
OneWayRangeModel(linkEnds, observationSettings, b) ==
    IF b.outcome # "ok" THEN b
    ELSE Built([kind |-> "OneWayRangeObservationModel",
                lightTimeCalculator |-> TransmitterToReceiver(linkEnds, observationSettings),
                observationBias |-> b.product],
               Append(b.constructed, TransmitterToReceiver(linkEnds, observationSettings)))

\* case one_way_range
OneWayRangeCase(linkEnds, observationSettings) ==
    IF ~ OneWayLinkEndsValid(linkEnds) THEN Threw(<<>>)
    ELSE OneWayRangeModel(linkEnds, observationSettings,
                          CreatorBias(1, linkEnds, observationSettings))

\* The one-way Doppler model of one-way Doppler settings, t and r being what
\* the creation of the transmitter's and of the receiver's proper-time
\* calculator ended in.  The arguments of the model's constructor are taken
\* to be evaluated in the order written.
OneWayDopplerModelWithProperTime(lightTime, b, t, r) ==
    IF t.outcome # "ok" THEN After(Append(b.constructed, lightTime), t)
    ELSE IF r.outcome # "ok"
    THEN After(Append(b.constructed, lightTime) \o t.constructed, r)
    ELSE Built([kind |-> "OneWayDopplerObservationModel",
                lightTimeCalculator |-> lightTime,
                transmitterProperTimeRate |-> t.product,
                receiverProperTimeRate |-> r.product,
                observationBias |-> b.product],
               Append(b.constructed, lightTime) \o t.constructed \o r.constructed)

\* The one-way Doppler model, b being what the creation of the bias ended in.
OneWayDopplerModel(linkEnds, observationSettings, bodies, b) ==
    IF b.outcome # "ok" THEN b
    ELSE IF ~ IsA(observationSettings, "OneWayDopplerObservationSettings")
    THEN Built([kind |-> "OneWayDopplerObservationModel",
                lightTimeCalculator |-> TransmitterToReceiver(linkEnds, observationSettings),
                transmitterProperTimeRate |-> NULL,
                receiverProperTimeRate |-> NULL,
                observationBias |-> b.product],
               Append(b.constructed, TransmitterToReceiver(linkEnds, observationSettings)))
    ELSE OneWayDopplerModelWithProperTime(
             TransmitterToReceiver(linkEnds, observationSettings), b,
             createOneWayDopplerProperTimeCalculator(
                 observationSettings.transmitterProperTimeRateSettings_,
                 linkEnds, bodies, transmitter),
             createOneWayDopplerProperTimeCalculator(
                 observationSettings.receiverProperTimeRateSettings_,
                 linkEnds, bodies, receiver))

\* case one_way_doppler
OneWayDopplerCase(linkEnds, observationSettings, bodies) ==
    IF ~ OneWayLinkEndsValid(linkEnds) THEN Threw(<<>>)
    ELSE OneWayDopplerModel(linkEnds, observationSettings, bodies,
                            CreatorBias(1, linkEnds, observationSettings))

\* The one-way differenced range model, b being what the creation of the
\* bias ended in: it holds two light-time calculators.
OneWayDifferencedRangeModel(linkEnds, observationSettings, b) ==
    IF b.outcome # "ok" THEN b
    ELSE Built([kind |-> "OneWayDifferencedRangeObservationModel",
                arcStartLightTimeCalculator |->
                    TransmitterToReceiver(linkEnds, observationSettings),
                arcEndLightTimeCalculator |->
                    TransmitterToReceiver(linkEnds, observationSettings),
                integrationTimeFunction |-> observationSettings.integrationTimeFunction_,
                observationBias |-> b.product],
               b.constructed \o <<TransmitterToReceiver(linkEnds, observationSettings),
                                  TransmitterToReceiver(linkEnds, observationSettings)>>)

\* case one_way_differenced_range
OneWayDifferencedRangeCase(linkEnds, observationSettings) ==
    IF ~ IsA(observationSettings, "OneWayDifferencedRangeRateObservationSettings")
    THEN Threw(<<>>)
    ELSE IF ~ OneWayLinkEndsValid(linkEnds) THEN Threw(<<>>)
    ELSE OneWayDifferencedRangeModel(linkEnds, observationSettings,
                                     CreatorBias(1, linkEnds, observationSettings))

\* The n-way check of the roles: a receiver, a transmitter, and for every
\* other role present the role before it in the enumeration.
NWayLinkEndsValid(linkEnds) ==
    /\ Cardinality(DOMAIN linkEnds) >= 2
    /\ receiver \in DOMAIN linkEnds
    /\ transmitter \in DOMAIN linkEnds
    /\ \A t \in DOMAIN linkEnds :
          (t # transmitter /\ t # receiver) =>
              /\ LinkEndTypeIndex(t) > 1
              /\ LinkEndTypeOrder[LinkEndTypeIndex(t) - 1] \in DOMAIN linkEnds

\* The light-time corrections of hop i with the parent's corrections given
\* to the first hop only.
HopCorrections_FirstHopOnly(observationSettings, i) ==
    IF IsA(observationSettings, "NWayRangeObservationSettings")
    THEN observationSettings.oneWayRangeObsevationSettings_[i].lightTimeCorrectionsList_
    ELSE IF i = 1 THEN observationSettings.lightTimeCorrectionsList_ ELSE <<>>

\* The light-time corrections hop i is made with.
HopCorrections(observationSettings, i) ==
    IF IsA(observationSettings, "NWayRangeObservationSettings")
    THEN observationSettings.oneWayRangeObsevationSettings_[i].lightTimeCorrectionsList_
    ELSE observationSettings.lightTimeCorrectionsList_

\* The light-time calculator of hop i: from link end i to link end i + 1 in
\* the iteration order of the link ends.
HopLightTimeCalculator(keys, linkEnds, observationSettings, i) ==
    createLightTimeCalculator(linkEnds[keys[i]], linkEnds[keys[i + 1]],
                              HopCorrections(observationSettings, i))

RECURSIVE NWayHopLoop(_, _, _, _, _, _)

\* The loop over the hops from hop i on; keys are the roles of the link ends
\* in iteration order, lightTimeCalculators the calculators made so far.
NWayHopLoop(keys, linkEnds, observationSettings, i, lightTimeCalculators, constructed) ==
    IF i > Len(keys) - 1 THEN Built(lightTimeCalculators, constructed)
    ELSE IF /\ IsA(observationSettings, "NWayRangeObservationSettings")
            /\ observationSettings.oneWayRangeObsevationSettings_[i] = NULL
    THEN UndefinedBehaviour(constructed)
    ELSE IF /\ IsA(observationSettings, "NWayRangeObservationSettings")
            /\ observationSettings.oneWayRangeObsevationSettings_[i].observableType_
                   # one_way_range
    THEN Threw(constructed)
    ELSE NWayHopLoop(keys, linkEnds, observationSettings, i + 1,
                     Append(lightTimeCalculators,
                            HopLightTimeCalculator(keys, linkEnds, observationSettings, i)),
                     Append(constructed,
                            HopLightTimeCalculator(keys, linkEnds, observationSettings, i)))

\* The n-way range model with the retransmission delay function of the
\* settings left behind.
NWayRangeModelOfHops_NoRetransmission(observationSettings, b, hops) ==
    IF hops.outcome # "ok" THEN hops
    ELSE Built([kind |-> "NWayRangeObservationModel",
                lightTimeCalculators |-> hops.product,
                retransmissionTimesFunction |-> NULL,
                observationBias |-> b.product],
               hops.constructed)

\* The n-way range model, hops being what the loop over the hops ended in.
NWayRangeModelOfHops(observationSettings, b, hops) ==
    IF hops.outcome # "ok" THEN hops
    ELSE Built([kind |-> "NWayRangeObservationModel",
                lightTimeCalculators |-> hops.product,
                retransmissionTimesFunction |->
                    IF IsA(observationSettings, "NWayRangeObservationSettings")
                    THEN observationSettings.retransmissionTimesFunction_
                    ELSE NULL,
                observationBias |-> b.product],
               hops.constructed)

\* The n-way range model, b being what the creation of the bias ended in.
NWayRangeModel(linkEnds, observationSettings, b) ==
    IF b.outcome # "ok" THEN b
    ELSE IF /\ IsA(observationSettings, "NWayRangeObservationSettings")
            /\ Len(observationSettings.oneWayRangeObsevationSettings_)
                   # Cardinality(DOMAIN linkEnds) - 1
    THEN Threw(b.constructed)
    ELSE NWayRangeModelOfHops(observationSettings, b,
                              NWayHopLoop(LinkEndTypesOf(linkEnds), linkEnds,
                                          observationSettings, 1, <<>>, b.constructed))

\* case n_way_range
NWayRangeCase(linkEnds, observationSettings) ==
    IF ~ NWayLinkEndsValid(linkEnds) THEN Threw(<<>>)
    ELSE NWayRangeModel(linkEnds, observationSettings,
                        CreatorBias(1, linkEnds, observationSettings))

\* The two-way Doppler check: exactly three link ends, a receiver, a
\* reflector1 and a transmitter.
TwoWayLinkEndsValid(linkEnds) ==
    /\ Cardinality(DOMAIN linkEnds) = 3
    /\ receiver \in DOMAIN linkEnds
    /\ reflector1 \in DOMAIN linkEnds
    /\ transmitter \in DOMAIN linkEnds

\* The settings of one leg when the two-way settings are plain, with the
\* parent's light-time corrections left behind.
SynthesizedLegSettings_NoCorrections(observationSettings) ==
    ObservationSettings(one_way_doppler, <<>>, NULL)

\* The settings of one leg when the two-way settings are plain:
\*     boost::make_shared< ObservationSettings >(
\*         one_way_doppler, observationSettings->lightTimeCorrectionsList_ )
SynthesizedLegSettings(observationSettings) ==
    ObservationSettings(one_way_doppler, observationSettings.lightTimeCorrectionsList_, NULL)

\* The settings the model of a leg ("uplink" or "downlink") is made from.
LegSettings(observationSettings, leg) ==
    IF ~ IsA(observationSettings, "TwoWayDopplerObservationSettings")
    THEN SynthesizedLegSettings(observationSettings)
    ELSE IF leg = "uplink" THEN observationSettings.uplinkOneWayDopplerSettings_
    ELSE observationSettings.downlinkOneWayDopplerSettings_

\* The link ends of a leg: uplinkLinkEnds and downlinkLinkEnds.
LegLinkEnds(linkEnds, leg) ==
    IF leg = "uplink"
    THEN (transmitter :> linkEnds[transmitter]) @@ (receiver :> linkEnds[reflector1])
    ELSE (transmitter :> linkEnds[reflector1]) @@ (receiver :> linkEnds[receiver])

\* boost::dynamic_pointer_cast< OneWayDopplerObservationModel >( model )
AsOneWayDopplerObservationModel(model) ==
    IF model.kind = "OneWayDopplerObservationModel" THEN model ELSE NULL

\* The two-way Doppler model, b, up and down being what the creation of the
\* bias, of the uplink model and of the downlink model ended in.  The two
\* legs are taken to be made in the order written, the uplink first.
TwoWayDopplerModel(b, up, down) ==
    IF b.outcome # "ok" THEN b
    ELSE IF up.outcome # "ok" THEN After(b.constructed, up)
    ELSE IF down.outcome # "ok" THEN After(b.constructed \o up.constructed, down)
    ELSE Built([kind |-> "TwoWayDopplerObservationModel",
                uplinkDopplerCalculator |-> AsOneWayDopplerObservationModel(up.product),
                downlinkDopplerCalculator |-> AsOneWayDopplerObservationModel(down.product),
                observationBias |-> b.product],
               b.constructed \o up.constructed \o down.constructed)

RECURSIVE ObservationModelCreator1(_, _, _)

\* case two_way_doppler
TwoWayDopplerCase(linkEnds, observationSettings, bodies) ==
    IF ~ TwoWayLinkEndsValid(linkEnds) THEN Threw(<<>>)
    ELSE TwoWayDopplerModel(
             CreatorBias(1, linkEnds, observationSettings),
             ObservationModelCreator1(LegLinkEnds(linkEnds, "uplink"),
                                      LegSettings(observationSettings, "uplink"), bodies),
             ObservationModelCreator1(LegLinkEnds(linkEnds, "downlink"),
                                      LegSettings(observationSettings, "downlink"), bodies))

\* ObservationModelCreator< 1 >::createObservationModel( linkEnds,
\* observationSettings, bodyMap )
ObservationModelCreator1(linkEnds, observationSettings, bodies) ==
    IF observationSettings = NULL THEN UndefinedBehaviour(<<>>)
    ELSE CASE observationSettings.observableType_ = one_way_range ->
                  OneWayRangeCase(linkEnds, observationSettings)
           [] observationSettings.observableType_ = one_way_doppler ->
                  OneWayDopplerCase(linkEnds, observationSettings, bodies)
           [] observationSettings.observableType_ = two_way_doppler ->
                  TwoWayDopplerCase(linkEnds, observationSettings, bodies)
           [] observationSettings.observableType_ = one_way_differenced_range ->
                  OneWayDifferencedRangeCase(linkEnds, observationSettings)
           [] observationSettings.observableType_ = n_way_range ->
                  NWayRangeCase(linkEnds, observationSettings)
           [] OTHER -> Threw(<<>>)

---------------------------------------------------------------------------
(* ObservationModelCreator< 2 > and < 3 >::createObservationModel          *)

\* The angular position model, b being what the creation of the bias ended in.
AngularPositionModel(linkEnds, observationSettings, b) ==
    IF b.outcome # "ok" THEN b
    ELSE Built([kind |-> "AngularPositionObservationModel",
                lightTimeCalculator |-> TransmitterToReceiver(linkEnds, observationSettings),
                observationBias |-> b.product],
               Append(b.constructed, TransmitterToReceiver(linkEnds, observationSettings)))

\* ObservationModelCreator< 2 >::createObservationModel
ObservationModelCreator2(linkEnds, observationSettings, bodies) ==
    IF observationSettings = NULL THEN UndefinedBehaviour(<<>>)
    ELSE IF observationSettings.observableType_ # angular_position THEN Threw(<<>>)
    ELSE IF ~ OneWayLinkEndsValid(linkEnds) THEN Threw(<<>>)
    ELSE AngularPositionModel(linkEnds, observationSettings,
                              CreatorBias(2, linkEnds, observationSettings))

\* The position observable model, b being what the creation of the bias
\* ended in; bodyMap.at throws for a body the environment does not hold.
PositionModel(linkEnds, bodies, b) ==
    IF b.outcome # "ok" THEN b
    ELSE IF linkEnds[observed_body][1] \notin DOMAIN bodies THEN Threw(b.constructed)
    ELSE Built([kind |-> "PositionObservationModel",
                observedBody |-> linkEnds[observed_body][1],
                observationBias |-> b.product],
               b.constructed)

\* The creator of size 3 with the check of the reference point left out.
ObservationModelCreator3_ReferencePointAllowed(linkEnds, observationSettings, bodies) ==
    IF observationSettings = NULL THEN UndefinedBehaviour(<<>>)
    ELSE IF observationSettings.observableType_ # position_observable THEN Threw(<<>>)
    ELSE IF Cardinality(DOMAIN linkEnds) # 1 THEN Threw(<<>>)
    ELSE IF observed_body \notin DOMAIN linkEnds THEN Threw(<<>>)
    ELSE IF Len(observationSettings.lightTimeCorrectionsList_) > 0 THEN Threw(<<>>)
    ELSE PositionModel(linkEnds, bodies, CreatorBias(3, linkEnds, observationSettings))

\* ObservationModelCreator< 3 >::createObservationModel
ObservationModelCreator3(linkEnds, observationSettings, bodies) ==
    IF observationSettings = NULL THEN UndefinedBehaviour(<<>>)
    ELSE IF observationSettings.observableType_ # position_observable THEN Threw(<<>>)
    ELSE IF Cardinality(DOMAIN linkEnds) # 1 THEN Threw(<<>>)
    ELSE IF observed_body \notin DOMAIN linkEnds THEN Threw(<<>>)
    ELSE IF Len(observationSettings.lightTimeCorrectionsList_) > 0 THEN Threw(<<>>)
    ELSE IF linkEnds[observed_body][2] # "" THEN Threw(<<>>)
    ELSE PositionModel(linkEnds, bodies, CreatorBias(3, linkEnds, observationSettings))

\* The creator of the given observable size.
ObservationModelCreator(ObservationSize, linkEnds, observationSettings, bodies) ==
    CASE ObservationSize = 1 -> ObservationModelCreator1(linkEnds, observationSettings, bodies)
      [] ObservationSize = 2 -> ObservationModelCreator2(linkEnds, observationSettings, bodies)
      [] ObservationSize = 3 -> ObservationModelCreator3(linkEnds, observationSettings, bodies)

---------------------------------------------------------------------------
(* createObservationSimulator and createObservationSimulators              *)

\* What a call over several entries ends in, made being what the entries
\* ended in and product what the call returns when all of them returned.
\* The first entry that does not return ends the call, and the order of the
\* entries is that of a std::map whose key order is not modelled, so a call
\* with an entry in undefined behaviour is itself counted as undefined.
Joined(made, product) ==
    LET outcomes == {made[k].outcome : k \in DOMAIN made}
    IN [outcome |-> IF outcomes \subseteq {"ok"} THEN "ok"
                    ELSE IF outcomes \subseteq {"ok", "error"} THEN "error"
                    ELSE "undefined",
        product |-> IF outcomes \subseteq {"ok"} THEN product ELSE NoProduct,
        constructed |-> <<>>]

\* The observation simulator of the models of made.
ObservationSimulator(ObservationSize, observableType, made) ==
    Joined(made,
           [kind |-> "ObservationSimulator",
            observableType |-> observableType,
            observationSize |-> ObservationSize,
            observationModels |-> [linkEnds \in DOMAIN made |-> made[linkEnds].product]])

\* createObservationSimulator< ObservationSize >( observableType,
\* settingsPerLinkEnds, bodyMap ): one observation model per link ends.
createObservationSimulator(ObservationSize, observableType, settingsPerLinkEnds, bodies) ==
    ObservationSimulator(
        ObservationSize, observableType,
        [linkEnds \in DOMAIN settingsPerLinkEnds |->
            ObservationModelCreator(ObservationSize, linkEnds,
                                    settingsPerLinkEnds[linkEnds], bodies)])

\* The observation simulator of every observable type with the size of the
\* observable taken to be 1 whatever the type.
SimulatorOfType_AlwaysSizeOne(observableType, settingsPerLinkEnds, bodies) ==
    createObservationSimulator(1, observableType, settingsPerLinkEnds, bodies)

\* The body of the loop of createObservationSimulators: the switch on the
\* size of the observable.
SimulatorOfType(observableType, settingsPerLinkEnds, bodies) ==
    IF getObservableSize(observableType) \in {1, 2, 3}
    THEN createObservationSimulator(getObservableSize(observableType), observableType,
                                    settingsPerLinkEnds, bodies)
    ELSE Threw(<<>>)

\* The simulators of made, keyed by observable type.
ObservationSimulators(made) ==
    Joined(made,
           [kind |-> "ObservationSimulators",
            observationSimulators |->
                [observableType \in DOMAIN made |-> made[observableType].product]])

\* createObservationSimulators( observationSettingsMap, bodyMap ) on a
\* SortedObservationSettingsMap.
createObservationSimulators(observationSettingsMap, bodies) ==
    ObservationSimulators(
        [observableType \in DOMAIN observationSettingsMap |->
            SimulatorOfType(observableType, observationSettingsMap[observableType], bodies)])

\* An unsorted ObservationSettingsMap (std::multimap< LinkEnds, settings >)
\* is a sequence of << link ends, settings >> entries; a sorted one is a
\* function from observable types to functions from link ends to settings.

\* convertUnsortedToSortedObservationSettingsMap( unsortedObservationSettingsMap ):
\* only declared in the files at hand.  Its result type holds one settings
\* object per observable type and link ends (a place); which of several
\* entries of one place it keeps is not known, so the operator yields every
\* sorted map that keeps one of them.
convertUnsortedToSortedObservationSettingsMap(unsorted) ==
    LET PlaceOf(i) == <<unsorted[i][2].observableType_, unsorted[i][1]>>
        Places == {PlaceOf(i) : i \in 1..Len(unsorted)}
        Choices == {c \in [Places -> 1..Len(unsorted)] :
                       \A place \in Places : PlaceOf(c[place]) = place}
    IN {[observableType \in {place[1] : place \in Places} |->
            [linkEnds \in {place[2] : place \in {q \in Places : q[1] = observableType}} |->
                unsorted[choice[<<observableType, linkEnds>>]][2]]] :
        choice \in Choices}

---------------------------------------------------------------------------
(* Inputs of the observation-model factories.                              *)

\* The environment of the observation-model factories: the Earth and the Sun
\* have a gravity field, the Vehicle has none, there is no Moon.
ObservationEnvironments ==
    {e \in Environments :
        /\ e["Vehicle"] = EmptyBody
        /\ e["Sun"] = SunBody
        /\ e["Earth"].gravityFieldModel = "spherical_harmonic"}

\* Lists of light-time correction settings; the settings are opaque.
LightTimeCorrectionLists == {<<>>, <<"first_order_relativistic">>}

\* Bias settings of the settings objects handed to a creator.
CreatorBiasSettings ==
    {NULL,
     ConstantObservationBiasSettings(1, TRUE),
     ConstantObservationBiasSettings(2, TRUE),
     MultipleObservationBiasSettings(<<ConstantObservationBiasSettings(1, TRUE),
                                       ConstantObservationBiasSettings(3, FALSE)>>)}

PlainObservationSettings ==
    {ObservationSettings(t, l, b) :
        t \in ObservableTypes, l \in LightTimeCorrectionLists, b \in CreatorBiasSettings}

ProperTimeRateSettings ==
    {NULL,
     DirectFirstOrderDopplerProperTimeRateSettings("Sun"),
     DirectFirstOrderDopplerProperTimeRateSettings("Earth"),
     DirectFirstOrderDopplerProperTimeRateSettings("Vehicle"),
     DopplerProperTimeRateSettings(custom_doppler_proper_time_rate)}

\* The settings handed to the creator of size 1: plain settings and settings
\* of each of the derived classes.
AllObservationSettings ==
    LET SomeBias == {NULL, ConstantObservationBiasSettings(1, TRUE)}
        NestedOneWayDopplerSettings ==
            {NULL,
             OneWayDopplerObservationSettings(<<>>, NULL, NULL, NULL),
             OneWayDopplerObservationSettings(
                 <<"first_order_relativistic">>,
                 DirectFirstOrderDopplerProperTimeRateSettings("Sun"),
                 DirectFirstOrderDopplerProperTimeRateSettings("Sun"), NULL)}
        HopSettings ==
            {NULL,
             ObservationSettings(one_way_range, <<>>, NULL),
             ObservationSettings(one_way_range, <<"first_order_relativistic">>, NULL),
             ObservationSettings(one_way_doppler, <<>>, NULL)}
    IN PlainObservationSettings
       \cup {OneWayDopplerObservationSettings(l, t, r, b) :
                 l \in LightTimeCorrectionLists, t \in ProperTimeRateSettings,
                 r \in ProperTimeRateSettings, b \in SomeBias}
       \cup {TwoWayDopplerObservationSettings(u, d, b) :
                 u \in NestedOneWayDopplerSettings, d \in NestedOneWayDopplerSettings,
                 b \in SomeBias}
       \cup {OneWayDifferencedRangeRateObservationSettings(
                  FunctionObject("integrationTimeFunction"), l, b) :
                 l \in LightTimeCorrectionLists, b \in SomeBias}
       \cup {NWayRangeObservationSettings(h, f, b) :
                 h \in UNION {[1..n -> HopSettings] : n \in 0..(MaxLinkEnds - 1)},
                 f \in {NULL, FunctionObject("retransmissionTimesFunction")},
                 b \in SomeBias}

\* The link ends and settings of the entries of settings maps.
SimulatorLinkEnds ==
    {(transmitter :> <<"Vehicle", "">>) @@ (receiver :> <<"Earth", "Station">>),
     (transmitter :> <<"Earth", "Station">>) @@ (receiver :> <<"Vehicle", "">>),
     (observed_body :> <<"Vehicle", "">>),
     (transmitter :> <<"Vehicle", "">>)}

SimulatorSettings ==
    {ObservationSettings(one_way_range, <<>>, NULL),
     ObservationSettings(one_way_range, <<"first_order_relativistic">>, NULL),
     ObservationSettings(angular_position, <<>>, NULL),
     ObservationSettings(position_observable, <<>>, NULL),
     ObservationSettings(unsupported_observable, <<>>, NULL),
     OneWayDopplerObservationSettings(<<>>, NULL, NULL, NULL)}

\* Unsorted settings maps: up to MaxSettingsEntries entries, in the order
\* they were inserted.
UnsortedSettingsMaps ==
    UNION {[1..n -> SimulatorLinkEnds \X SimulatorSettings] : n \in 0..MaxSettingsEntries}

\* Sorted settings maps of up to MaxSettingsEntries entries.  A caller fills
\* the buckets itself, so a bucket may hold settings of another observable
\* type than its own.
SortedSettingsMaps ==
    UNION {convertUnsortedToSortedObservationSettingsMap(u) : u \in UnsortedSettingsMaps}
    \cup
    {(observableType :> (linkEnds :> settings)) :
        observableType \in {one_way_range, position_observable},
        linkEnds \in SimulatorLinkEnds, settings \in SimulatorSettings}

---------------------------------------------------------------------------
(* Actions of the observation-model factories.                             *)

ObsInit ==
    /\ bodyMap \in ObservationEnvironments
    /\ op = "idle"
    /\ args = <<>>
    /\ updates = EmptyUpdates
    /\ outcome = "ok"
    /\ built = NoProduct
    /\ constructionLog = <<>>

\* A factory call ends: a call in undefined behaviour ends in one of
\* UndefinedOutcomes.
Build(name, input, r) ==
    /\ op' = name
    /\ args' = input
    /\ outcome' \in (IF r.outcome = "undefined" THEN UndefinedOutcomes ELSE {r.outcome})
    /\ built' = r.product
    /\ constructionLog' = r.constructed
    /\ UNCHANGED <<bodyMap, updates>>

\* ObservationModelCreator< ObservationSize >::createObservationModel
CreateObservationModel ==
    /\ op = "idle"
    /\ \E ObservationSize \in {1, 2, 3} :
       \E linkEnds \in AllLinkEnds :
       \E observationSettings \in
              (IF ObservationSize = 1 THEN AllObservationSettings
                                      ELSE PlainObservationSettings) :
          Build("createObservationModel",
                [ObservationSize |-> ObservationSize, linkEnds |-> linkEnds,
                 observationSettings |-> observationSettings],
                ObservationModelCreator(ObservationSize, linkEnds,
                                        observationSettings, bodyMap))

\* createObservationSimulators on a sorted settings map.
CreateObservationSimulators ==
    /\ op = "idle"
    /\ \E observationSettingsMap \in SortedSettingsMaps :
          Build("createObservationSimulators", observationSettingsMap,
                createObservationSimulators(observationSettingsMap, bodyMap))

\* convertUnsortedToSortedObservationSettingsMap
ConvertUnsortedToSorted ==
    /\ op = "idle"
    /\ \E unsorted \in UnsortedSettingsMaps :
       \E sorted \in convertUnsortedToSortedObservationSettingsMap(unsorted) :
          Build("convertUnsortedToSortedObservationSettingsMap", unsorted,
                Built(sorted, <<>>))

\* createObservationSimulators on an unsorted settings map: the map is
\* regrouped and handed to the function for sorted maps.
CreateObservationSimulatorsFromUnsorted ==
    /\ op = "idle"
    /\ \E unsorted \in UnsortedSettingsMaps :
       \E sorted \in convertUnsortedToSortedObservationSettingsMap(unsorted) :
          Build("createObservationSimulators_Unsorted", unsorted,
                createObservationSimulators(sorted, bodyMap))

\* Bounds of the bias settings handed to the bias factory: the number of
\* arcs of arc-wise settings and the number of settings in a list.
MaxArcs == 2
MaxBiasListLength == 2

\* A bias settings object whose useAbsoluteBias_ member was set after
\* construction (the members are public and not const).
WithUseAbsoluteBias(biasSettings, useAbsoluteBias) ==
    [biasSettings EXCEPT !.useAbsoluteBias_ = useAbsoluteBias]

\* Bias settings objects that hold no further settings: constant and
\* arc-wise settings with vectors of 1 to 3 rows, with the flag as
\* constructed and changed, and objects of the base class with each type tag
\* and with a value that is none of the enumerators.
LeafBiasSettings ==
    LET Constant == {ConstantObservationBiasSettings(rows, flag) :
                        rows \in 1..3, flag \in BOOLEAN}
        ArcWise == {ArcWiseConstantObservationBiasSettings(arcs, receiver, flag) :
                        arcs \in UNION {[1..n -> 1..3] : n \in 0..MaxArcs},
                        flag \in BOOLEAN}
    IN Constant \cup ArcWise
       \cup {WithUseAbsoluteBias(s, ~ s.useAbsoluteBias_) : s \in Constant \cup ArcWise}
       \cup {ObservationBiasSettings(t) :
                t \in {multiple_observation_biases, constant_absolute_bias,
                       constant_relative_bias, arc_wise_constant_absolute_bias,
                       arc_wise_constant_relative_bias, "unrecognized_bias_type"}}

\* The settings that lists of bias settings are made of: a settings pointer
\* that is NULL, settings for observables of size 1, 2 and 3, settings of the
\* wrong class, and a list within the list.
ListedBiasSettings ==
    {NULL,
     ConstantObservationBiasSettings(1, TRUE),
     ConstantObservationBiasSettings(1, FALSE),
     ConstantObservationBiasSettings(2, TRUE),
     ConstantObservationBiasSettings(3, FALSE),
     ArcWiseConstantObservationBiasSettings(<<1>>, receiver, TRUE),
     ObservationBiasSettings(constant_absolute_bias),
     MultipleObservationBiasSettings(<<ConstantObservationBiasSettings(1, TRUE)>>),
     MultipleObservationBiasSettings(<<ConstantObservationBiasSettings(1, TRUE),
                                       ConstantObservationBiasSettings(2, TRUE)>>)}

\* The bias settings handed to the bias factory.
AllBiasSettings ==
    LeafBiasSettings
    \cup {MultipleObservationBiasSettings(list) :
             list \in UNION {[1..n -> ListedBiasSettings] : n \in 0..MaxBiasListLength}}

\* createObservationBiasCalculator< ObservationSize >
CreateObservationBiasCalculator ==
    /\ op = "idle"
    /\ \E ObservationSize \in {1, 2, 3} :
       \E linkEnds \in SimulatorLinkEnds :
       \E biasSettings \in AllBiasSettings :
          Build("createObservationBiasCalculator",
                [ObservationSize |-> ObservationSize, linkEnds |-> linkEnds,
                 observableType |-> one_way_range, biasSettings |-> biasSettings],
                createObservationBiasCalculator(ObservationSize, linkEnds,
                                                one_way_range, biasSettings))

\* The proper-time-rate settings handed to the proper-time-rate factory:
\* those of the creators, settings naming a body the environment does not
\* hold, and an object of the base class tagged as direct first order.
AllProperTimeRateSettings ==
    ProperTimeRateSettings
    \cup {DirectFirstOrderDopplerProperTimeRateSettings("Moon"),
          DopplerProperTimeRateSettings(direct_first_order_doppler_proper_time_rate)}

\* createOneWayDopplerProperTimeCalculator
CreateOneWayDopplerProperTimeCalculator ==
    /\ op = "idle"
    /\ \E properTimeRateSettings \in AllProperTimeRateSettings :
       \E linkEnds \in AllLinkEnds :
       \E linkEndForCalculator \in {transmitter, reflector1, receiver} :
          Build("createOneWayDopplerProperTimeCalculator",
                [properTimeRateSettings |-> properTimeRateSettings,
                 linkEnds |-> linkEnds,
                 linkEndForCalculator |-> linkEndForCalculator],
                createOneWayDopplerProperTimeCalculator(
                    properTimeRateSettings, linkEnds, bodyMap, linkEndForCalculator))

\* The caller drops what the last factory call gave.
ObsDiscard ==
    /\ op # "idle"
    /\ op' = "idle"
    /\ args' = <<>>
    /\ outcome' = "ok"
    /\ built' = NoProduct
    /\ constructionLog' = <<>>
    /\ UNCHANGED <<bodyMap, updates>>

ObsNext ==
    \/ CreateObservationModel
    \/ CreateObservationSimulators
    \/ ConvertUnsortedToSorted
    \/ CreateObservationSimulatorsFromUnsorted
    \/ CreateObservationBiasCalculator
    \/ CreateOneWayDopplerProperTimeCalculator
    \/ ObsDiscard

ObsSpec == ObsInit /\ [][ObsNext]_vars

---------------------------------------------------------------------------
(* Properties.                                                             *)

CheckValidityOp == "checkValidityOfRequiredEnvironmentUpdates"
RemoveOp == "removePropagatedStatesFomEnvironmentUpdates"
ForceOp == "createTranslationalEquationsOfMotionEnvironmentUpdaterSettings"
TorqueOp == "createRotationalEquationsOfMotionEnvironmentUpdaterSettings"
MassRateOp == "createMassPropagationEnvironmentUpdaterSettings"
SingleVariableOp == "createEnvironmentUpdaterSettingsForDependentVariables"
VariablesOp == "createEnvironmentUpdaterSettings_DependentVariables"
TerminationOp == "createEnvironmentUpdaterSettings_Termination"
FullOp == "createFullEnvironmentUpdaterSettings"

\* The sub-model a facet implies is present on the body.
ImpliedSubModelPresent(body, facet) ==
    /\ facet = body_translational_state_update => body.ephemeris
    /\ facet = body_rotational_state_update =>
           body.rotationalEphemeris \/ body.dependentOrientationCalculator
    /\ facet = spherical_harmonic_gravity_field_update =>
           body.gravityFieldModel \in {"spherical_harmonic", "time_dependent_spherical_harmonic"}
    /\ facet = vehicle_flight_conditions_update => body.flightConditions # "none"
    /\ facet = radiation_pressure_interface_update => body.radiationPressureInterfaces # {}
    /\ facet = body_mass_update => body.bodyMassFunction

\* Some (facet, body) pair with a non-empty name names a body that is absent
\* or lacks the sub-model of the facet.
SomePairInvalid(m, bodies) ==
    \E f \in DOMAIN m : \E i \in 1..Len(m[f]) :
        /\ m[f][i] # ""
        /\ \/ m[f][i] \notin DOMAIN bodies
           \/ ~ ImpliedSubModelPresent(bodies[m[f][i]], f)

\* C1: checkValidity raises an error if and only if some (facet, body) pair
\* with a non-empty body name names a body that is absent from the environment
\* or that lacks the sub-model the facet implies; pairs with an empty name are
\* skipped; the call changes neither the request nor the environment.
C1_CheckValidityIffSomePairInvalid ==
    [][ op' = CheckValidityOp =>
            /\ (outcome' = "error") <=> SomePairInvalid(args', bodyMap)
            /\ updates' = args'
            /\ bodyMap' = bodyMap ]_vars

\* C1 witness: a request with a global ("") entry and an entry for a body
\* that exists but has no rotation source was refused, and a request whose
\* only named body has its sub-model, beside a global entry, would pass.
C1_Witness ==
    /\ op = CheckValidityOp
    /\ outcome = "error"
    /\ \E f \in DOMAIN args : \E i \in 1..Len(args[f]) : args[f][i] = ""
    /\ body_rotational_state_update \in DOMAIN args
    /\ args[body_rotational_state_update] = <<"Vehicle">>
    /\ ~ bodyMap["Vehicle"].rotationalEphemeris
    /\ ~ bodyMap["Vehicle"].dependentOrientationCalculator

\* The number of entries of the integrated-state list that name body b under
\* the kind pruned from facet f.
PropagatedCount(l, f, b) ==
    LET t == CASE f = body_translational_state_update -> "translational_state"
               [] f = body_rotational_state_update -> "rotational_state"
               [] f = body_mass_update -> "body_mass_state"
               [] OTHER -> "none"
    IN IF t \in DOMAIN l
       THEN Cardinality({i \in 1..Len(l[t]) : l[t][i][1] = b})
       ELSE 0

\* names without the first k(b) occurrences of every name b.
WithoutFirstOccurrences(names, k(_)) ==
    LET keep == { i \in 1..Len(names) :
                      Cardinality({j \in 1..i : names[j] = names[i]}) > k(names[i]) }
    IN [ n \in 1..Cardinality(keep) |->
             names[CHOOSE i \in keep : Cardinality({j \in keep : j <= i}) = n] ]

\* C2: removePropagatedStates removes, for each propagated entry of kind
\* translational, rotational or mass naming body X, exactly one occurrence
\* (the first) of X from the matching facet's list if it is there; every
\* other name keeps its place and order, every other facet's list is
\* unchanged, no facet entry or name is added, a custom kind changes
\* nothing, and an entry of an unknown kind raises an error.
C2_RemovesFirstOccurrencePerEntry ==
    [][ op' = RemoveOp =>
            /\ DOMAIN updates' = DOMAIN updates
            /\ (outcome' = "error") <=>
                   /\ "unrecognized_state" \in DOMAIN args'
                   /\ Len(args'["unrecognized_state"]) > 0
            /\ outcome' = "ok" =>
                   \A f \in DOMAIN updates :
                       updates'[f] =
                           WithoutFirstOccurrences(updates[f],
                               LAMBDA b : PropagatedCount(args', f, b)) ]_vars

\* C2 witness: a body listed twice under the translational facet, beside
\* another body, was propagated once and is still listed once; a custom
\* entry was in the list.
C2_Witness ==
    /\ op = RemoveOp
    /\ outcome = "ok"
    /\ "translational_state" \in DOMAIN args
    /\ args["translational_state"] = << <<"Vehicle", "">> >>
    /\ "custom_state" \in DOMAIN args
    /\ body_translational_state_update \in DOMAIN updates
    /\ updates[body_translational_state_update] = <<"Earth", "Vehicle", "Earth">>

\* C3, as claimed: after removePropagatedStates returns, no body propagated
\* translationally / rotationally / in mass is listed under the
\* translational-state / rotational-state / mass facet.
C3_NoPropagatedBodyListed ==
    (op = RemoveOp /\ outcome = "ok") =>
        \A f \in DOMAIN updates : \A i \in 1..Len(updates[f]) :
            PropagatedCount(args, f, updates[f][i]) = 0

\* The positions <<accelerated, exerting, i>> of the models of a map of
\* acceleration or torque models.
ModelPositions(map) ==
    { <<a, e, i>> \in (DOMAIN map) \X BodyNames \X (1..MaxModels + 1) :
          e \in DOMAIN map[a] /\ i \in 1..Len(map[a][e]) }

\* The names a thrust model asks for under the translational-state facet.
ThrustStateContribution(model, b) ==
    IF model.type = "thrust_acceleration"
    THEN Occurrences(model.requiredModelUpdates, body_translational_state_update, b)
    ELSE 0

\* The thrust models at the positions S name body b that often.
RECURSIVE ThrustStateSum(_, _, _)
ThrustStateSum(map, S, b) ==
    IF S = {} THEN 0
    ELSE LET p == CHOOSE q \in S : TRUE
         IN ThrustStateContribution(map[p[1]][p[2]][p[3]], b)
            + ThrustStateSum(map, S \ {p}, b)

TablePairs(type, A, E) ==
    CASE type = "spherical_harmonic_gravity" ->
             { <<body_rotational_state_update, E>>,
               <<spherical_harmonic_gravity_field_update, E>> }
      [] type = "aerodynamic" ->
             { <<body_rotational_state_update, E>>,
               <<vehicle_flight_conditions_update, A>>,
               <<body_mass_update, A>> }
      [] type = "cannon_ball_radiation_pressure" ->
             { <<radiation_pressure_interface_update, A>>, <<body_mass_update, A>> }
      [] type = "thrust_acceleration" -> { <<body_mass_update, A>> }
      [] type \in {"central_gravity", "empirical_acceleration"} -> {}

TableKinds ==
    { "spherical_harmonic_gravity", "aerodynamic", "cannon_ball_radiation_pressure",
      "thrust_acceleration", "central_gravity", "empirical_acceleration" }

\* How often the model at position p contributes body b under facet f.
TableContribution(map, p, f, b) ==
    LET model == map[p[1]][p[2]][p[3]] IN
      (IF f = body_translational_state_update /\ b = p[2] /\ p[2] \notin DOMAIN map
       THEN 1 ELSE 0)
      + (IF <<f, b>> \in TablePairs(model.type, p[1], p[2]) THEN 1 ELSE 0)
      + (IF model.type = "thrust_acceleration"
         THEN Occurrences(model.requiredModelUpdates, f, b) ELSE 0)

\* How often the models at the positions S contribute body b under facet f.
RECURSIVE TableSum(_, _, _, _)
TableSum(map, S, f, b) ==
    IF S = {} THEN 0
    ELSE LET p == CHOOSE q \in S : TRUE
         IN TableContribution(map, p, f, b) + TableSum(map, S \ {p}, f, b)

\* C5: from force models of the kinds spherical-harmonic gravity,
\* aerodynamic, cannon-ball radiation pressure, thrust, central gravity and
\* empirical, the returned set holds, for every facet and body, exactly the
\* contributions of the table: rotational state and gravity field of the
\* exerting body for spherical-harmonic gravity; rotational state of the
\* exerting body, flight conditions and mass of the accelerated body for
\* aerodynamic; radiation-pressure interface and mass of the accelerated body
\* for cannon-ball radiation pressure; the thrust model's own updates and the
\* mass of the accelerated body for thrust; nothing for central gravity and
\* empirical; each beside the translational-state rule.
C5_FacetsPerAccelerationKind ==
    ( /\ op = ForceOp
      /\ outcome = "ok"
      /\ \A p \in ModelPositions(args) : args[p[1]][p[2]][p[3]].type \in TableKinds ) =>
        \A f \in Facets \cup DOMAIN updates : \A b \in BodyNames \cup {""} :
            Occurrences(updates, f, b) =
                TableSum(args, ModelPositions(args), f, b)

\* C5 witness: an aerodynamic acceleration by the Earth and a cannon-ball
\* radiation pressure by the Sun on the vehicle.
C5_Witness ==
    /\ op = ForceOp
    /\ outcome = "ok"
    /\ DOMAIN args = {"Vehicle"}
    /\ DOMAIN args["Vehicle"] = {"Earth", "Sun"}
    /\ args["Vehicle"]["Earth"][1].type = "aerodynamic"
    /\ args["Vehicle"]["Sun"][1].type = "cannon_ball_radiation_pressure"
    /\ Listed(updates, vehicle_flight_conditions_update, "Vehicle")
    /\ Listed(updates, radiation_pressure_interface_update, "Vehicle")

\* A torque or mass-rate model map names a kind outside the known set.
HasUnknownTorque(map) ==
    \E p \in ModelPositions(map) :
        map[p[1]][p[2]][p[3]] \notin {"second_order_gravitational_torque", "aerodynamic_torque"}

HasUnknownMassRate(map) ==
    \E b \in DOMAIN map : \E i \in 1..Len(map[b]) :
        map[b][i] \notin {"custom_mass_rate_model", "from_thrust_mass_rate_model"}

HasUnknownAcceleration(map) ==
    \E p \in ModelPositions(map) : map[p[1]][p[2]][p[3]].type = "undefined_acceleration"

\* C6, as claimed: each of the producers from force, torque and mass-rate
\* models fails when it meets a model of a kind outside its known set, and
\* the mass-rate producer returns an empty set for the known kinds.
C6_UnknownKindFails ==
    /\ (op = ForceOp /\ HasUnknownAcceleration(args)) => outcome = "error"
    /\ (op = TorqueOp /\ HasUnknownTorque(args)) => outcome = "error"
    /\ (op = MassRateOp /\ HasUnknownMassRate(args)) => outcome = "error"
    /\ (op = MassRateOp /\ ~ HasUnknownMassRate(args)) =>
           (outcome = "ok" /\ updates = EmptyUpdates)

\* C7, as claimed: in the set a producer returns, every body name appears at
\* most once in the list of each facet.
C7_NoNameTwicePerFacet ==
    (op \in {ForceOp, TorqueOp, VariablesOp, TerminationOp, FullOp} /\ outcome = "ok") =>
        \A f \in DOMAIN updates : \A i, j \in 1..Len(updates[f]) :
            updates[f][i] = updates[f][j] => i = j

\* C8, as claimed: the set a producer returns names, for every facet, only
\* bodies that exist and have the sub-model of the facet.
C8_ReturnedSetIsValid ==
    (op \in Producers /\ outcome = "ok") => ~ SomePairInvalid(updates, bodyMap)

\* The variable's table entry asks for the flight conditions of its
\* associated body.
RequiresFlightConditions(v) ==
    vehicle_flight_conditions_update \in DOMAIN VariablesToUpdate(v)

\* The environment holds what atmospheric flight conditions are made from.
HasPrerequisites(v, bodies) ==
    /\ bodies[v.secondaryBody].atmosphereModel
    /\ bodies[v.associatedBody].aerodynamicCoefficientInterface

\* The single-variable call found both bodies, and the associated body
\* without flight conditions, for a variable that requires them.
LacksRequiredFlightConditions(v, bodies) ==
    /\ v.dependentVariableType \in KnownDependentVariables
    /\ RequiresFlightConditions(v)
    /\ v.associatedBody \in DOMAIN bodies
    /\ v.secondaryBody \in DOMAIN bodies
    /\ bodies[v.associatedBody].flightConditions = "none"

\* C9, as claimed: from a dependent-variable request, flight conditions are
\* attached to an associated body that has none only if the environment has
\* the prerequisites; when a prerequisite is missing, or the body already has
\* flight conditions, the call leaves the environment unchanged.
C9_AttachedOnlyWithPrerequisites ==
    [][ op' = SingleVariableOp =>
            IF LacksRequiredFlightConditions(args', bodyMap) /\ HasPrerequisites(args', bodyMap)
            THEN bodyMap' = [bodyMap EXCEPT ![args'.associatedBody].flightConditions =
                                                "atmospheric"]
            ELSE bodyMap' = bodyMap ]_vars

\* C9, amended: from a dependent-variable request whose set requires flight
\* conditions on an associated body that has none, both bodies being in the
\* environment, flight conditions are always attached to that body:
\* atmospheric ones when the environment has the prerequisites, plain ones
\* when a prerequisite is missing.  The environment is left unchanged when
\* the body already has flight conditions, when the variable requires none,
\* and when the call fails.
C9_AttachedAtmosphericOrPlain ==
    [][ op' = SingleVariableOp =>
            IF LacksRequiredFlightConditions(args', bodyMap)
            THEN /\ outcome' = "ok"
                 /\ bodyMap' = [bodyMap EXCEPT ![args'.associatedBody].flightConditions =
                                    IF HasPrerequisites(args', bodyMap)
                                    THEN "atmospheric" ELSE "plain"]
            ELSE bodyMap' = bodyMap ]_vars

\* C9 witness: the altitude of the vehicle above the Sun, which has no
\* atmosphere, was requested, and the vehicle now has plain flight conditions.
C9_Witness ==
    /\ op = SingleVariableOp
    /\ outcome = "ok"
    /\ args.dependentVariableType = "altitude_dependent_variable"
    /\ args.associatedBody = "Vehicle"
    /\ args.secondaryBody = "Sun"
    /\ ~ bodyMap["Sun"].atmosphereModel
    /\ bodyMap["Vehicle"].flightConditions = "plain"

\* The variable kinds whose table entry holds no flight conditions.
KindsWithoutFlightConditions ==
    { "relative_speed_dependent_variable", "relative_position_dependent_variable",
      "relative_distance_dependent_variable", "relative_velocity_dependent_variable",
      "keplerian_state_dependent_variable",
      "modified_equinocial_state_dependent_variable",
      "lvlh_to_inertial_frame_rotation_dependent_variable",
      "periapsis_altitude_dependent_variable",
      "total_acceleration_norm_dependent_variable",
      "single_acceleration_norm_dependent_variable",
      "total_acceleration_dependent_variable",
      "single_acceleration_dependent_variable",
      "total_mass_rate_dependent_variables",
      "total_torque_norm_dependent_variable",
      "single_torque_norm_dependent_variable",
      "total_torque_dependent_variable",
      "single_torque_dependent_variable",
      "spherical_harmonic_acceleration_terms_dependent_variable",
      "rotation_matrix_to_body_fixed_frame_variable",
      "body_fixed_relative_cartesian_position",
      "body_fixed_relative_spherical_position",
      "radiation_pressure_dependent_variable" }

\* A termination request made only of time and cpu-time conditions.
RECURSIVE OnlyTimeConditions(_)
OnlyTimeConditions(t) ==
    \/ t.terminationType \in {"time_stopping_condition", "cpu_time_stopping_condition"}
    \/ /\ t.terminationType = "hybrid_stopping_condition"
       /\ \A i \in 1..Len(t.terminationSettings) : OnlyTimeConditions(t.terminationSettings[i])

\* C10: checkValidity, removePropagatedStates, the producers from force,
\* torque and mass-rate models, the brute-force builder, a termination
\* request made only of time and cpu-time conditions, and a request for
\* dependent variables whose table entries hold no flight conditions leave
\* every body of the environment as it was.
C10_EnvironmentChangedOnlyByAttachment ==
    [][ ( \/ op' \in {CheckValidityOp, RemoveOp, ForceOp, TorqueOp, MassRateOp, FullOp}
          \/ op' = TerminationOp /\ OnlyTimeConditions(args')
          \/ op' = SingleVariableOp /\ args'.dependentVariableType \in KindsWithoutFlightConditions
          \/ /\ op' = VariablesOp
             /\ \A i \in 1..Len(args'.dependentVariables) :
                    args'.dependentVariables[i].dependentVariableType
                        \in KindsWithoutFlightConditions )
        => bodyMap' = bodyMap ]_vars

\* C10 witness: the relative position of the vehicle with respect to the
\* Earth was requested in an environment where a request for its altitude
\* would have attached flight conditions, and the vehicle still has none.
C10_Witness ==
    /\ op = SingleVariableOp
    /\ outcome = "ok"
    /\ args.dependentVariableType = "relative_position_dependent_variable"
    /\ args.associatedBody = "Vehicle"
    /\ args.secondaryBody = "Earth"
    /\ bodyMap["Earth"].atmosphereModel
    /\ bodyMap["Vehicle"].aerodynamicCoefficientInterface
    /\ bodyMap["Vehicle"].flightConditions = "none"

\* The conditions of a termination tree that are not hybrid, in the order
\* a depth-first walk meets them.
RECURSIVE TerminationLeavesOf(_)
RECURSIVE TerminationLeavesOfAll(_, _)
TerminationLeavesOf(t) ==
    IF t.terminationType = "hybrid_stopping_condition"
    THEN TerminationLeavesOfAll(t.terminationSettings, 1)
    ELSE <<t>>

TerminationLeavesOfAll(children, i) ==
    IF i > Len(children) THEN <<>>
    ELSE TerminationLeavesOf(children[i]) \o TerminationLeavesOfAll(children, i + 1)

\* The merge, in order, of what the table yields for the dependent-variable
\* conditions among the leaves, from the i-th leaf on.
RECURSIVE MergedTableSets(_, _, _)
MergedTableSets(into, leaves, i) ==
    IF i > Len(leaves) THEN into
    ELSE IF leaves[i].terminationType = "dependent_variable_stopping_condition"
         THEN MergedTableSets(
                  addEnvironmentUpdates(into,
                      VariablesToUpdate(leaves[i].dependentVariableSettings)),
                  leaves, i + 1)
         ELSE MergedTableSets(into, leaves, i + 1)

KnownTerminationKinds ==
    { "time_stopping_condition", "cpu_time_stopping_condition",
      "dependent_variable_stopping_condition", "hybrid_stopping_condition" }

\* C11: from termination settings, a condition of unknown kind anywhere in
\* the tree makes the call fail; a call that succeeds returns the merge, in
\* the order of the tree, of what the dependent-variable table yields for
\* each dependent-variable condition, so that a time or cpu-time condition
\* yields the empty set and a dependent-variable condition alone yields the
\* table entry of its variable; a tree of time and cpu-time conditions
\* always succeeds.
C11_TerminationTreeYieldsMergeOfLeaves ==
    op = TerminationOp =>
        LET leaves == TerminationLeavesOf(args) IN
        /\ (\E i \in 1..Len(leaves) : leaves[i].terminationType \notin KnownTerminationKinds)
               => outcome = "error"
        /\ (\A i \in 1..Len(leaves) :
                leaves[i].terminationType
                    \in {"time_stopping_condition", "cpu_time_stopping_condition"})
               => (outcome = "ok" /\ updates = EmptyUpdates)
        /\ outcome = "ok" => updates = MergedTableSets(EmptyUpdates, leaves, 1)

\* C11 witness: a hybrid condition over two dependent-variable conditions
\* returned the sets of both variables, one after the other.
C11_Witness ==
    /\ op = TerminationOp
    /\ outcome = "ok"
    /\ args.terminationType = "hybrid_stopping_condition"
    /\ Len(args.terminationSettings) = 2
    /\ vehicle_flight_conditions_update \in DOMAIN updates
    /\ Occurrences(updates, body_translational_state_update, "Vehicle") = 2

\* C12: the brute-force builder lists a body under flight conditions iff
\* it has flight conditions, under rotational state iff it has a rotational
\* ephemeris or a dependent-orientation calculator, under gravity-field
\* update iff its gravity field is a time-dependent spherical-harmonic
\* field, and lists no translational-state update.
C12_FullUpdateListsPresentSubModels ==
    (op = FullOp /\ outcome = "ok") =>
        /\ body_translational_state_update \notin DOMAIN updates
        /\ \A b \in BodyNames \cup {""} :
               LET present == b \in DOMAIN bodyMap IN
               /\ Listed(updates, vehicle_flight_conditions_update, b) <=>
                      (present /\ bodyMap[b].flightConditions # "none")
               /\ Listed(updates, body_rotational_state_update, b) <=>
                      (present /\ (bodyMap[b].rotationalEphemeris
                                   \/ bodyMap[b].dependentOrientationCalculator))
               /\ Listed(updates, spherical_harmonic_gravity_field_update, b) <=>
                      (present /\ bodyMap[b].gravityFieldModel
                                      = "time_dependent_spherical_harmonic")

\* C12 witness: the build succeeded in an environment whose vehicle has an
\* orientation calculator only, whose Earth has a rotation model and whose
\* Sun has none; the Sun is not listed under rotational state.
C12_Witness ==
    /\ op = FullOp
    /\ outcome = "ok"
    /\ ~ bodyMap["Vehicle"].rotationalEphemeris
    /\ bodyMap["Vehicle"].dependentOrientationCalculator
    /\ updates[body_rotational_state_update] = <<"Earth", "Vehicle">>
    /\ updates[spherical_harmonic_gravity_field_update] = <<"Earth">>

\* C13, as claimed: the brute-force builder lists a body exactly once under
\* radiation-pressure-interface update when it has one or more interfaces,
\* and not at all when it has none.
C13_OneRadiationPressureUpdatePerBody ==
    (op = FullOp /\ outcome = "ok") =>
        \A b \in DOMAIN bodyMap :
            Occurrences(updates, radiation_pressure_interface_update, b) =
                IF bodyMap[b].radiationPressureInterfaces # {} THEN 1 ELSE 0

\* C14, as claimed: for every environment the brute-force build succeeds
\* and lists a mass update for every body of the environment.
C14_FullUpdateSucceedsWithMassOfEveryBody ==
    op = FullOp =>
        /\ outcome = "ok"
        /\ \A b \in DOMAIN bodyMap : Listed(updates, body_mass_update, b)

---------------------------------------------------------------------------
(* Properties of the observation-model factories.                          *)

CreateModelOp == "createObservationModel"
SimulatorsOp == "createObservationSimulators"
ConvertOp == "convertUnsortedToSortedObservationSettingsMap"

\* The number of entries of a sorted settings map.
SortedEntryCount(sorted) ==
    Cardinality(UNION {{<<observableType, linkEnds>> : linkEnds \in DOMAIN sorted[observableType]} :
                           observableType \in DOMAIN sorted})

\* C15: regrouping an unsorted link-ends -> settings multimap into the sorted
\* map preserves every entry: the sorted map has as many entries as the
\* unsorted one, also when the unsorted map holds several settings for the
\* same link ends, and every entry lies in the bucket of the observable type
\* its settings declare.
C15_RegroupingPreservesEveryEntry ==
    op = ConvertOp =>
        /\ outcome = "ok"
        /\ SortedEntryCount(built) = Len(args)
        /\ \A observableType \in DOMAIN built :
              \A linkEnds \in DOMAIN built[observableType] :
                  built[observableType][linkEnds].observableType_ = observableType

\* What the build of the model of one entry of a sorted settings map ends
\* in, with the creator of the size of the bucket's observable type.
EntryBuild(sorted, observableType, linkEnds) ==
    ObservationModelCreator(getObservableSize(observableType), linkEnds,
                            sorted[observableType][linkEnds], bodyMap)

\* Every bucket of the sorted map is of an observable of size 1, 2 or 3.
AllSizesSupported(sorted) ==
    \A observableType \in DOMAIN sorted : getObservableSize(observableType) \in {1, 2, 3}

\* The build of the model of every entry of the sorted map returns.
AllEntriesBuild(sorted) ==
    \A observableType \in DOMAIN sorted :
        \A linkEnds \in DOMAIN sorted[observableType] :
            EntryBuild(sorted, observableType, linkEnds).outcome = "ok"

\* C16: createObservationSimulators returns one simulator per observable
\* type of the sorted map, each with one observation model per link-ends
\* entry of that type, made by the creator of the size (1, 2 or 3) of the
\* type; an observable type of another size, or one model build that does
\* not return, makes the whole call fail and nothing is returned.
C16_OneSimulatorPerTypeOneModelPerEntry ==
    op = SimulatorsOp =>
        /\ (AllSizesSupported(args) /\ AllEntriesBuild(args)) <=> outcome = "ok"
        /\ outcome # "ok" => built = NoProduct
        /\ outcome = "ok" =>
              /\ DOMAIN built.observationSimulators = DOMAIN args
              /\ \A observableType \in DOMAIN args :
                    /\ built.observationSimulators[observableType].observableType
                           = observableType
                    /\ built.observationSimulators[observableType].observationSize
                           = getObservableSize(observableType)
                    /\ DOMAIN built.observationSimulators[observableType].observationModels
                           = DOMAIN args[observableType]
                    /\ \A linkEnds \in DOMAIN args[observableType] :
                          built.observationSimulators[observableType]
                                  .observationModels[linkEnds]
                              = EntryBuild(args, observableType, linkEnds).product

\* A call on a sorted map of two observable types of different sizes returned.
C16_Witness ==
    /\ op = SimulatorsOp
    /\ outcome = "ok"
    /\ {one_way_range, position_observable} \subseteq DOMAIN args

\* The observables built on one link from a transmitter to a receiver, each
\* with the size of the creator that makes it.
OneWayObservableSizes ==
    (one_way_range :> 1) @@ (one_way_doppler :> 1) @@ (one_way_differenced_range :> 1)
        @@ (angular_position :> 2)

\* The settings are of the class the observable is made from: one-way
\* differenced range needs the settings that carry the integration time.
SettingsFitObservable(observationSettings) ==
    observationSettings.observableType_ = one_way_differenced_range
        => IsA(observationSettings, "OneWayDifferencedRangeRateObservationSettings")

\* No proper-time-rate settings the one-way Doppler settings carry are
\* rejected by the proper-time-rate factory.
NoProperTimeSettingsRejected(observationSettings, linkEnds) ==
    IsA(observationSettings, "OneWayDopplerObservationSettings") =>
        /\ createOneWayDopplerProperTimeCalculator(
               observationSettings.transmitterProperTimeRateSettings_,
               linkEnds, bodyMap, transmitter).outcome # "error"
        /\ createOneWayDopplerProperTimeCalculator(
               observationSettings.receiverProperTimeRateSettings_,
               linkEnds, bodyMap, receiver).outcome # "error"

\* The light-time calculators a model holds.
LightTimeCalculatorsOf(model) ==
    IF model.kind = "OneWayDifferencedRangeObservationModel"
    THEN {model.arcStartLightTimeCalculator, model.arcEndLightTimeCalculator}
    ELSE {model.lightTimeCalculator}

\* C17: for one-way range, one-way Doppler and one-way differenced range
\* (creator of size 1) and angular position (creator of size 2) the call
\* fails with an error unless the link ends are exactly a transmitter and a
\* receiver; for such link ends and fitting settings without bias it returns
\* a model on a light-time calculator from the transmitter's link end to the
\* receiver's, without a bias calculator; and such an observable asked of
\* the creator of another size fails with an error.
C17_OneWayObservablesNeedTransmitterAndReceiver ==
    (/\ op = CreateModelOp
     /\ args.observationSettings # NULL
     /\ args.observationSettings.observableType_ \in DOMAIN OneWayObservableSizes) =>
        IF OneWayObservableSizes[args.observationSettings.observableType_]
               # args.ObservationSize
        THEN outcome = "error"
        ELSE IF DOMAIN args.linkEnds # {transmitter, receiver}
        THEN outcome = "error"
        ELSE (/\ args.observationSettings.biasSettings_ = NULL
              /\ SettingsFitObservable(args.observationSettings)
              /\ NoProperTimeSettingsRejected(args.observationSettings, args.linkEnds)) =>
                 /\ outcome = "ok"
                 /\ built.observationBias = NULL
                 /\ \A lightTimeCalculator \in LightTimeCalculatorsOf(built) :
                       /\ lightTimeCalculator.transmitter
                              = args.linkEnds[transmitter]
                       /\ lightTimeCalculator.receiver = args.linkEnds[receiver]

\* The creation of the bias the settings ask for, if any, returns.
BiasAccepted(ObservationSize, linkEnds, observationSettings) ==
    CreatorBias(ObservationSize, linkEnds, observationSettings).outcome = "ok"

\* C18: two-way Doppler fails with an error unless the link ends are exactly
\* a transmitter, a reflector1 and a receiver; with these three and plain
\* settings (no uplink and downlink settings of their own, bias accepted) the
\* call returns a model whose uplink leg is a one-way Doppler model from the
\* transmitter's link end to reflector1's and whose downlink leg is one from
\* reflector1's to the receiver's, both legs made with the light-time
\* corrections of the two-way settings.
C18_TwoWayDopplerLegsInheritCorrections ==
    (/\ op = CreateModelOp
     /\ args.ObservationSize = 1
     /\ args.observationSettings # NULL
     /\ args.observationSettings.observableType_ = two_way_doppler) =>
        /\ DOMAIN args.linkEnds # {transmitter, reflector1, receiver} => outcome = "error"
        /\ (/\ DOMAIN args.linkEnds = {transmitter, reflector1, receiver}
            /\ IsA(args.observationSettings, "ObservationSettings")
            /\ BiasAccepted(1, args.linkEnds, args.observationSettings)) =>
               /\ outcome = "ok"
               /\ built.kind = "TwoWayDopplerObservationModel"
               /\ built.uplinkDopplerCalculator.kind = "OneWayDopplerObservationModel"
               /\ built.uplinkDopplerCalculator.lightTimeCalculator =
                      createLightTimeCalculator(
                          args.linkEnds[transmitter], args.linkEnds[reflector1],
                          args.observationSettings.lightTimeCorrectionsList_)
               /\ built.downlinkDopplerCalculator.kind = "OneWayDopplerObservationModel"
               /\ built.downlinkDopplerCalculator.lightTimeCalculator =
                      createLightTimeCalculator(
                          args.linkEnds[reflector1], args.linkEnds[receiver],
                          args.observationSettings.lightTimeCorrectionsList_)

\* A two-way Doppler model was made from plain settings with a light-time
\* correction, between three different link ends.
C18_Witness ==
    /\ op = CreateModelOp
    /\ outcome = "ok"
    /\ built.kind = "TwoWayDopplerObservationModel"
    /\ IsA(args.observationSettings, "ObservationSettings")
    /\ args.observationSettings.lightTimeCorrectionsList_ # <<>>
    /\ Cardinality({args.linkEnds[role] : role \in DOMAIN args.linkEnds}) = 3
    /\ built.uplinkDopplerCalculator.lightTimeCalculator.lightTimeCorrections # <<>>

\* The call failed for want of a reflector1 among three link ends.
C18_WitnessNoReflector ==
    /\ op = CreateModelOp
    /\ outcome = "error"
    /\ args.observationSettings # NULL
    /\ args.observationSettings.observableType_ = two_way_doppler
    /\ Cardinality(DOMAIN args.linkEnds) = 3
    /\ reflector1 \notin DOMAIN args.linkEnds

\* The proper-time-rate factory accepts the settings of the given side: they
\* are there and the factory returns.
ProperTimeSettingsAccepted(observationSettings, linkEnds, side) ==
    createOneWayDopplerProperTimeCalculator(
        IF side = transmitter THEN observationSettings.transmitterProperTimeRateSettings_
                              ELSE observationSettings.receiverProperTimeRateSettings_,
        linkEnds, bodyMap, side).outcome = "ok"

\* The one-way Doppler settings carry no proper-time-rate settings: a plain
\* settings object, or one-way Doppler settings with both left at NULL.
CarriesNoProperTimeSettings(observationSettings) ==
    IsA(observationSettings, "OneWayDopplerObservationSettings") =>
        /\ observationSettings.transmitterProperTimeRateSettings_ = NULL
        /\ observationSettings.receiverProperTimeRateSettings_ = NULL

\* C19: one-way Doppler with a transmitter and a receiver as link ends and
\* an accepted bias: when the settings carry proper-time-rate settings that
\* the proper-time-rate factory accepts, the model holds the calculators the
\* factory makes for the transmitter and for the receiver; when the settings
\* carry none (plain settings, or one-way Doppler settings with both left at
\* NULL) the call returns a model without proper-time calculators.
C19_ProperTimeCalculatorsOnlyWhenSettingsGiven ==
    (/\ op = CreateModelOp
     /\ args.ObservationSize = 1
     /\ args.observationSettings # NULL
     /\ args.observationSettings.observableType_ = one_way_doppler
     /\ DOMAIN args.linkEnds = {transmitter, receiver}
     /\ BiasAccepted(1, args.linkEnds, args.observationSettings)) =>
        /\ (/\ IsA(args.observationSettings, "OneWayDopplerObservationSettings")
            /\ ProperTimeSettingsAccepted(args.observationSettings, args.linkEnds,
                                          transmitter)
            /\ ProperTimeSettingsAccepted(args.observationSettings, args.linkEnds,
                                          receiver)) =>
               /\ outcome = "ok"
               /\ built.transmitterProperTimeRate =
                      createOneWayDopplerProperTimeCalculator(
                          args.observationSettings.transmitterProperTimeRateSettings_,
                          args.linkEnds, bodyMap, transmitter).product
               /\ built.receiverProperTimeRate =
                      createOneWayDopplerProperTimeCalculator(
                          args.observationSettings.receiverProperTimeRateSettings_,
                          args.linkEnds, bodyMap, receiver).product
        /\ CarriesNoProperTimeSettings(args.observationSettings) =>
               /\ outcome = "ok"
               /\ built.transmitterProperTimeRate = NULL
               /\ built.receiverProperTimeRate = NULL

\* The roles of a chain of k link ends from the transmitter over the
\* reflectors to the receiver.
ChainOfLength(k) ==
    <<transmitter>> \o SubSeq(<<reflector1, reflector2>>, 1, k - 2) \o <<receiver>>

\* The link ends are those of a chain from the transmitter to the receiver.
FormChain(linkEnds) ==
    /\ Cardinality(DOMAIN linkEnds) \in 2..4
    /\ DOMAIN linkEnds =
           {ChainOfLength(Cardinality(DOMAIN linkEnds))[i] :
                i \in 1..Cardinality(DOMAIN linkEnds)}

\* C20: n-way range made from plain settings (no settings per hop, bias
\* accepted) for a chain of k >= 2 link ends returns a model with exactly
\* k - 1 light-time calculators, hop i going from link end i of the chain to
\* link end i + 1 (the first from the transmitter's, the last to the
\* receiver's), each with the light-time corrections of the settings; link
\* ends without a receiver, without a transmitter or fewer than two fail
\* with an error.
C20_NWayRangeOneCalculatorPerHop ==
    (/\ op = CreateModelOp
     /\ args.ObservationSize = 1
     /\ args.observationSettings # NULL
     /\ args.observationSettings.observableType_ = n_way_range) =>
        /\ (\/ Cardinality(DOMAIN args.linkEnds) < 2
            \/ receiver \notin DOMAIN args.linkEnds
            \/ transmitter \notin DOMAIN args.linkEnds) => outcome = "error"
        /\ (/\ FormChain(args.linkEnds)
            /\ IsA(args.observationSettings, "ObservationSettings")
            /\ BiasAccepted(1, args.linkEnds, args.observationSettings)) =>
               /\ outcome = "ok"
               /\ built.kind = "NWayRangeObservationModel"
               /\ Len(built.lightTimeCalculators) = Cardinality(DOMAIN args.linkEnds) - 1
               /\ \A i \in 1..(Cardinality(DOMAIN args.linkEnds) - 1) :
                     built.lightTimeCalculators[i] =
                         createLightTimeCalculator(
                             args.linkEnds[ChainOfLength(Cardinality(DOMAIN args.linkEnds))[i]],
                             args.linkEnds[ChainOfLength(Cardinality(DOMAIN args.linkEnds))[i + 1]],
                             args.observationSettings.lightTimeCorrectionsList_)

\* An n-way range model of two hops was made from plain settings with a
\* light-time correction, between three different link ends.
C20_Witness ==
    /\ op = CreateModelOp
    /\ outcome = "ok"
    /\ built.kind = "NWayRangeObservationModel"
    /\ IsA(args.observationSettings, "ObservationSettings")
    /\ args.observationSettings.lightTimeCorrectionsList_ # <<>>
    /\ DOMAIN args.linkEnds = {transmitter, reflector1, receiver}
    /\ Cardinality({args.linkEnds[role] : role \in DOMAIN args.linkEnds}) = 3
    /\ Len(built.lightTimeCalculators) = 2

\* The call failed for want of a receiver among two or more link ends.
C20_WitnessNoReceiver ==
    /\ op = CreateModelOp
    /\ outcome = "error"
    /\ args.observationSettings # NULL
    /\ args.observationSettings.observableType_ = n_way_range
    /\ Cardinality(DOMAIN args.linkEnds) >= 2
    /\ receiver \notin DOMAIN args.linkEnds

\* What the position observable asks of its input: the observed body as the
\* only link end, no light-time corrections, no reference point on the body.
PositionInputValid(linkEnds, observationSettings) ==
    /\ DOMAIN linkEnds = {observed_body}
    /\ observationSettings.lightTimeCorrectionsList_ = <<>>
    /\ linkEnds[observed_body][2] = ""

\* C21: the position observable (creator of size 3) returns a model only if
\* the link ends are exactly the observed body, the settings carry no
\* light-time corrections and the link end of the observed body has no
\* reference point; each violation ends in an error and no model.
C21_PositionObservableNeedsBareObservedBody ==
    (/\ op = CreateModelOp
     /\ args.ObservationSize = 3
     /\ args.observationSettings # NULL
     /\ args.observationSettings.observableType_ = position_observable) =>
        /\ outcome = "ok" => PositionInputValid(args.linkEnds, args.observationSettings)
        /\ ~ PositionInputValid(args.linkEnds, args.observationSettings) =>
               /\ outcome = "error"
               /\ built = NoProduct

\* A position observable model was made.
C21_Witness ==
    /\ op = CreateModelOp
    /\ args.ObservationSize = 3
    /\ outcome = "ok"
    /\ built.kind = "PositionObservationModel"
    /\ PositionInputValid(args.linkEnds, args.observationSettings)

\* The position observable failed for a reference point on the observed
\* body, all else being as asked.
C21_WitnessReferencePoint ==
    /\ op = CreateModelOp
    /\ args.ObservationSize = 3
    /\ outcome = "error"
    /\ args.observationSettings # NULL
    /\ args.observationSettings.observableType_ = position_observable
    /\ DOMAIN args.linkEnds = {observed_body}
    /\ args.observationSettings.lightTimeCorrectionsList_ = <<>>
    /\ args.observationSettings.biasSettings_ = NULL
    /\ args.linkEnds[observed_body][2] # ""

BiasOp == "createObservationBiasCalculator"

\* C22: the bias factory, for every observable size N: for settings of kind
\* constant absolute or constant relative the call returns a bias exactly
\* when the settings are of the constant-bias class, their useAbsoluteBias
\* flag agrees with the kind and their vector has N rows, and ends in an
\* error otherwise; for the arc-wise kinds the call ends in an error when
\* the settings are not of the arc-wise class, when the flag disagrees with
\* the kind, or when the vector of some arc has other than N rows.
C22_ConstantAndArcWiseBiasChecks ==
    (op = BiasOp /\ args.biasSettings # NULL) =>
        /\ args.biasSettings.observationBiasType_
               \in {constant_absolute_bias, constant_relative_bias} =>
              IF /\ IsA(args.biasSettings, "ConstantObservationBiasSettings")
                 /\ args.biasSettings.useAbsoluteBias_ =
                        (args.biasSettings.observationBiasType_ = constant_absolute_bias)
                 /\ args.biasSettings.observationBias_ = args.ObservationSize
              THEN /\ outcome = "ok"
                   /\ built.kind =
                          (IF args.biasSettings.observationBiasType_ = constant_absolute_bias
                           THEN "ConstantObservationBias"
                           ELSE "ConstantRelativeObservationBias")
                   /\ built.observationBias = args.biasSettings.observationBias_
              ELSE outcome = "error" /\ built = NoProduct
        /\ (/\ args.biasSettings.observationBiasType_
                   \in {arc_wise_constant_absolute_bias, arc_wise_constant_relative_bias}
            /\ \/ ~ IsA(args.biasSettings, "ArcWiseConstantObservationBiasSettings")
               \/ args.biasSettings.useAbsoluteBias_ #
                      (args.biasSettings.observationBiasType_
                           = arc_wise_constant_absolute_bias)
               \/ \E i \in 1..Len(args.biasSettings.observationBiases_) :
                      args.biasSettings.observationBiases_[i] # args.ObservationSize) =>
              outcome = "error" /\ built = NoProduct

\* A constant relative bias of three rows was made for an observable of
\* size 3.
C22_Witness ==
    /\ op = BiasOp
    /\ outcome = "ok"
    /\ args.ObservationSize = 3
    /\ args.biasSettings.observationBiasType_ = constant_relative_bias
    /\ built.kind = "ConstantRelativeObservationBias"

\* Constant settings of the right class and flag failed for their number of
\* rows alone.
C22_WitnessLength ==
    /\ op = BiasOp
    /\ outcome = "error"
    /\ args.biasSettings # NULL
    /\ args.biasSettings.observationBiasType_ = constant_absolute_bias
    /\ IsA(args.biasSettings, "ConstantObservationBiasSettings")
    /\ args.biasSettings.useAbsoluteBias_
    /\ args.biasSettings.observationBias_ # args.ObservationSize

\* Arc-wise settings of the right class and flag failed for the rows of
\* their second arc alone.
C22_WitnessArc ==
    /\ op = BiasOp
    /\ outcome = "error"
    /\ args.biasSettings # NULL
    /\ args.biasSettings.observationBiasType_ = arc_wise_constant_relative_bias
    /\ IsA(args.biasSettings, "ArcWiseConstantObservationBiasSettings")
    /\ ~ args.biasSettings.useAbsoluteBias_
    /\ Len(args.biasSettings.observationBiases_) = 2
    /\ args.biasSettings.observationBiases_[1] = args.ObservationSize
    /\ args.biasSettings.observationBiases_[2] # args.ObservationSize

\* What the creation of the bias of element i of the list of the arguments
\* ends in, made on its own with the size of the call.
NestedBias(i) ==
    createObservationBiasCalculator(args.ObservationSize, args.linkEnds,
                                    args.observableType,
                                    args.biasSettings.biasSettingsList_[i])

\* The elements of the list whose bias is not made.
FailingNested ==
    {i \in 1..Len(args.biasSettings.biasSettingsList_) : NestedBias(i).outcome # "ok"}

\* The first of them.
FirstFailingNested ==
    CHOOSE i \in FailingNested : \A j \in FailingNested : i <= j

RECURSIVE ConstructedByNested(_)

\* Everything the creation of the biases of elements 1 to n constructs.
ConstructedByNested(n) ==
    IF n = 0 THEN <<>> ELSE ConstructedByNested(n - 1) \o NestedBias(n).constructed

\* C23: the bias factory on settings of kind multiple makes the bias of
\* every element of the list with the same observable size, in list order.
\* If all are made the call returns a bias holding them, one per element in
\* list order; otherwise the call fails as the first element that fails
\* does, nothing of the elements after it is constructed and no bias is
\* returned.  A kind that is none of the five fails with an error.
C23_MultipleBiasInOrderFirstFailureEnds ==
    (op = BiasOp /\ args.biasSettings # NULL) =>
        /\ (/\ args.biasSettings.observationBiasType_ = multiple_observation_biases
            /\ IsA(args.biasSettings, "MultipleObservationBiasSettings")) =>
              IF FailingNested = {}
              THEN /\ outcome = "ok"
                   /\ built.kind = "MultiTypeObservationBias"
                   /\ Len(built.biasList) = Len(args.biasSettings.biasSettingsList_)
                   /\ \A i \in 1..Len(args.biasSettings.biasSettingsList_) :
                         built.biasList[i] = NestedBias(i).product
              ELSE /\ outcome # "ok"
                   /\ NestedBias(FirstFailingNested).outcome = "error" => outcome = "error"
                   /\ built = NoProduct
                   /\ constructionLog = ConstructedByNested(FirstFailingNested)
        /\ args.biasSettings.observationBiasType_
               \notin {multiple_observation_biases, constant_absolute_bias,
                       constant_relative_bias, arc_wise_constant_absolute_bias,
                       arc_wise_constant_relative_bias} =>
              outcome = "error" /\ built = NoProduct

\* A bias of two biases was made from a list of two settings of different
\* kinds.
C23_Witness ==
    /\ op = BiasOp
    /\ outcome = "ok"
    /\ built.kind = "MultiTypeObservationBias"
    /\ Len(built.biasList) = 2
    /\ built.biasList[1].kind # built.biasList[2].kind

\* A list of two settings failed at its second element, after the bias of
\* the first was made.
C23_WitnessSecondFails ==
    /\ op = BiasOp
    /\ outcome = "error"
    /\ args.biasSettings # NULL
    /\ IsA(args.biasSettings, "MultipleObservationBiasSettings")
    /\ Len(args.biasSettings.biasSettingsList_) = 2
    /\ FirstFailingNested = 2
    /\ Len(constructionLog) = 1

\* A list of two settings failed at its first element although the second
\* could be made.
C23_WitnessFirstFails ==
    /\ op = BiasOp
    /\ outcome = "error"
    /\ args.biasSettings # NULL
    /\ IsA(args.biasSettings, "MultipleObservationBiasSettings")
    /\ Len(args.biasSettings.biasSettingsList_) = 2
    /\ FailingNested = {1}
    /\ constructionLog = <<>>

ProperTimeOp == "createOneWayDopplerProperTimeCalculator"

\* The throw statement the call of the arguments ends at.
ProperTimeFailureOfCall ==
    ProperTimeFailure(args.properTimeRateSettings, args.linkEnds, bodyMap,
                      args.linkEndForCalculator)

\* The transmitter or the receiver of the arguments is the central body the
\* settings name.
OnCentralBody ==
    \E role \in {transmitter, receiver} \cap DOMAIN args.linkEnds :
        args.linkEnds[role] = <<args.properTimeRateSettings.centralBodyName_, "">>

\* The central body the settings name is in the environment and has a
\* gravity field.
CentralBodyHasGravityField ==
    /\ args.properTimeRateSettings.centralBodyName_ \in DOMAIN bodyMap
    /\ bodyMap[args.properTimeRateSettings.centralBodyName_].gravityFieldModel # "none"

\* What C24 says of every call but for the calls with the transmitter or the
\* receiver on the central body: a calculator is returned only if the
\* settings are of the direct first-order class, the role asked for is among
\* the link ends, the central body has a gravity field and neither the
\* transmitter nor the receiver is on it; a kind other than direct first
\* order fails as not recognized; every failure is an error without a
\* calculator.
ProperTimeRequirements ==
    /\ outcome = "ok" =>
          /\ IsA(args.properTimeRateSettings,
                 "DirectFirstOrderDopplerProperTimeRateSettings")
          /\ args.linkEndForCalculator \in DOMAIN args.linkEnds
          /\ CentralBodyHasGravityField
          /\ ~ OnCentralBody
          /\ built.kind = "DirectFirstOrderDopplerProperTimeRateInterface"
    /\ outcome = "ok" <=> ProperTimeFailureOfCall = "none"
    /\ outcome # "ok" => outcome = "error" /\ built = NoProduct
    /\ args.properTimeRateSettings.dopplerProperTimeRateType_
           # direct_first_order_doppler_proper_time_rate =>
          ProperTimeFailureOfCall = "did_not_recognize_type"

C24_WitnessMade ==
    /\ op = ProperTimeOp
    /\ outcome = "ok"
    /\ args.linkEndForCalculator = receiver
    /\ args.linkEnds[receiver] = <<"Earth", "Station">>
    /\ built.centralBody = "Earth"

\* The facets a third-body model of the kind asks for on its central body.
\* As C25 words it all three kinds ask for all three facets; in the case
\* blocks of the switch only the mutual kind asks for more than the
\* translational state.
CentralBodyFacets(type, asWorded) ==
    IF asWorded \/ type = "third_body_mutual_spherical_harmonic_gravity"
    THEN {body_translational_state_update, body_rotational_state_update,
          spherical_harmonic_gravity_field_update}
    ELSE {body_translational_state_update}

\* The (facet, body) pairs a third-body model exerted by E on A asks for
\* whatever its central body is.
ThirdBodyOwnPairs(type, A, E) ==
    CASE type = "third_body_spherical_harmonic_gravity" ->
             { <<body_rotational_state_update, E>>,
               <<spherical_harmonic_gravity_field_update, E>> }
      [] type = "third_body_mutual_spherical_harmonic_gravity" ->
             { <<body_rotational_state_update, E>>,
               <<spherical_harmonic_gravity_field_update, E>>,
               <<body_rotational_state_update, A>>,
               <<spherical_harmonic_gravity_field_update, A>> }
      [] OTHER -> {}

\* How often the model at position p contributes body b under facet f.
ThirdBodyContribution(map, p, f, b, asWorded) ==
    (IF f = body_translational_state_update /\ b = p[2] /\ p[2] \notin DOMAIN map
     THEN 1 ELSE 0)
    + Cardinality({<<f, b>>} \cap
                  ThirdBodyOwnPairs(map[p[1]][p[2]][p[3]].type, p[1], p[2]))
    + (IF /\ map[p[1]][p[2]][p[3]].type \in ThirdBodyTypes
          /\ b = map[p[1]][p[2]][p[3]].centralBodyName
          /\ b \notin DOMAIN map
          /\ f \in CentralBodyFacets(map[p[1]][p[2]][p[3]].type, asWorded)
       THEN 1 ELSE 0)

RECURSIVE ThirdBodySum(_, _, _, _, _)

\* How often the models at the positions S contribute body b under facet f.
ThirdBodySum(map, S, f, b, asWorded) ==
    IF S = {} THEN 0
    ELSE ThirdBodyContribution(map, CHOOSE q \in S : TRUE, f, b, asWorded)
         + ThirdBodySum(map, S \ {CHOOSE q \in S : TRUE}, f, b, asWorded)

\* The map holds third-body and central-gravity models only, and a
\* third-body model at least.
ThirdBodyMap(map) ==
    /\ \A p \in ModelPositions(map) :
          map[p[1]][p[2]][p[3]].type \in ThirdBodyTypes \cup {"central_gravity"}
    /\ \E p \in ModelPositions(map) : map[p[1]][p[2]][p[3]].type \in ThirdBodyTypes

\* A model of the map is tagged with a third-body kind and is not of the
\* class of the kind.
HasMismatchedThirdBody(map) ==
    \E p \in ModelPositions(map) :
        /\ map[p[1]][p[2]][p[3]].type \in ThirdBodyTypes
        /\ ~ map[p[1]][p[2]][p[3]].isOfDeclaredClass

\* The updates are those of the third-body models of the arguments, for
\* every facet and body.
UpdatesAreThirdBodySum(asWorded) ==
    \A f \in Facets \cup DOMAIN updates : \A b \in BodyNames \cup {""} :
        Occurrences(updates, f, b) =
            ThirdBodySum(args, ModelPositions(args), f, b, asWorded)

\* C25 as worded: from third-body force models, the translational-state,
\* the rotational-state and the gravity-field update of the central body are
\* added for each of the three third-body kinds if and only if the central
\* body is not a key of the acceleration map; a model tagged with a
\* third-body kind that is not of the class of the kind fails with an error.
C25_AsWorded_ThreeFacetsForEveryKind ==
    /\ (op = ForceOp /\ HasMismatchedThirdBody(args)) => outcome = "error"
    /\ (op = ForceOp /\ outcome = "ok" /\ ThirdBodyMap(args)) =>
           UpdatesAreThirdBodySum(TRUE)

\* C25: from third-body force models, the updates of the central body are
\* added if and only if the central body is not a key of the acceleration
\* map, and they are the translational-state update for third-body central
\* gravity and third-body spherical-harmonic gravity, and the
\* translational-state, rotational-state and gravity-field updates for
\* third-body mutual spherical-harmonic gravity; a model tagged with a
\* third-body kind that is not of the class of the kind fails with an error.
C25_CentralBodyUpdatesUnlessPropagated ==
    /\ (op = ForceOp /\ HasMismatchedThirdBody(args)) => outcome = "error"
    /\ (op = ForceOp /\ outcome = "ok" /\ ThirdBodyMap(args)) =>
           UpdatesAreThirdBodySum(FALSE)

\* A third-body model whose central body is a key of the acceleration map:
\* the central body is not listed.
C25_Witness ==
    /\ op = ForceOp
    /\ outcome = "ok"
    /\ ThirdBodyMap(args)
    /\ \E p \in ModelPositions(args) :
          /\ args[p[1]][p[2]][p[3]].type \in ThirdBodyTypes
          /\ args[p[1]][p[2]][p[3]].centralBodyName \in DOMAIN args
          /\ ~ Listed(updates, body_translational_state_update,
                      args[p[1]][p[2]][p[3]].centralBodyName)

\* A third-body mutual spherical-harmonic model whose central body is not a
\* key of the acceleration map: the three updates of the central body are
\* listed.
C25_WitnessMutual ==
    /\ op = ForceOp
    /\ outcome = "ok"
    /\ DOMAIN args = {"Vehicle"}
    /\ DOMAIN args["Vehicle"] = {"Sun"}
    /\ Len(args["Vehicle"]["Sun"]) = 1
    /\ args["Vehicle"]["Sun"][1].type = "third_body_mutual_spherical_harmonic_gravity"
    /\ Listed(updates, body_translational_state_update, "Earth")
    /\ Listed(updates, body_rotational_state_update, "Earth")
    /\ Listed(updates, spherical_harmonic_gravity_field_update, "Earth")

\* A model tagged third-body spherical-harmonic gravity that is not of the
\* class made the call fail.
C25_WitnessMismatch ==
    /\ op = ForceOp
    /\ outcome = "error"
    /\ \E p \in ModelPositions(args) :
          /\ args[p[1]][p[2]][p[3]].type = "third_body_spherical_harmonic_gravity"
          /\ ~ args[p[1]][p[2]][p[3]].isOfDeclaredClass

\* The one-way Doppler settings C26 has a leg ("uplink" or "downlink") made
\* from: the nested settings of the leg when they are provided, plain
\* one-way Doppler settings with the parent's light-time corrections when
\* they are not.
LegSettingsAsStated(observationSettings, leg) ==
    IF LegSettings(observationSettings, leg) # NULL
    THEN LegSettings(observationSettings, leg)
    ELSE SynthesizedLegSettings(observationSettings)

\* What the creation of the one-way Doppler model of a leg from the settings
\* C26 names ends in.
LegAsStated(linkEnds, observationSettings, leg) ==
    ObservationModelCreator1(LegLinkEnds(linkEnds, leg),
                             LegSettingsAsStated(observationSettings, leg), bodyMap)

\* C26: two-way Doppler with a transmitter, a reflector1 and a receiver as
\* link ends, two-way Doppler settings and an accepted bias: each leg is the
\* one-way Doppler model made from the nested uplink / downlink settings when
\* these are provided, and when they are left at NULL the call still returns
\* a model, that leg being made from plain one-way Doppler settings with the
\* parent's light-time corrections (whenever the creation of both legs from
\* these settings returns).
C26_TwoWayDopplerLegsFromNestedOrSynthesizedSettings ==
    (/\ op = CreateModelOp
     /\ args.ObservationSize = 1
     /\ IsA(args.observationSettings, "TwoWayDopplerObservationSettings")
     /\ DOMAIN args.linkEnds = {transmitter, reflector1, receiver}
     /\ BiasAccepted(1, args.linkEnds, args.observationSettings)
     /\ LegAsStated(args.linkEnds, args.observationSettings, "uplink").outcome = "ok"
     /\ LegAsStated(args.linkEnds, args.observationSettings, "downlink").outcome = "ok") =>
        /\ outcome = "ok"
        /\ built.kind = "TwoWayDopplerObservationModel"
        /\ built.uplinkDopplerCalculator =
               LegAsStated(args.linkEnds, args.observationSettings, "uplink").product
        /\ built.downlinkDopplerCalculator =
               LegAsStated(args.linkEnds, args.observationSettings, "downlink").product

\* The part of C26 on nested settings that are provided: both legs are the
\* one-way Doppler models made from them.
C26_ProvidedNestedSettingsAreUsed ==
    (/\ op = CreateModelOp
     /\ args.ObservationSize = 1
     /\ IsA(args.observationSettings, "TwoWayDopplerObservationSettings")
     /\ args.observationSettings.uplinkOneWayDopplerSettings_ # NULL
     /\ args.observationSettings.downlinkOneWayDopplerSettings_ # NULL) =>
        C26_TwoWayDopplerLegsFromNestedOrSynthesizedSettings

\* A two-way Doppler model was made from nested settings that are provided,
\* the uplink with a light-time correction.
C26_WitnessProvided ==
    /\ op = CreateModelOp
    /\ outcome = "ok"
    /\ IsA(args.observationSettings, "TwoWayDopplerObservationSettings")
    /\ built.kind = "TwoWayDopplerObservationModel"
    /\ built.uplinkDopplerCalculator.lightTimeCalculator.lightTimeCorrections # <<>>

\* Two-way Doppler settings with the uplink settings left at NULL were given
\* with valid link ends, and the call did not return a model.
C26_WitnessNullUplink ==
    /\ op = CreateModelOp
    /\ IsA(args.observationSettings, "TwoWayDopplerObservationSettings")
    /\ args.observationSettings.uplinkOneWayDopplerSettings_ = NULL
    /\ args.observationSettings.downlinkOneWayDopplerSettings_ # NULL
    /\ args.observationSettings.biasSettings_ = NULL
    /\ DOMAIN args.linkEnds = {transmitter, reflector1, receiver}
    /\ outcome \in UndefinedOutcomes

\* The per-hop settings of n-way range settings are all provided.
PerHopSettingsProvided(observationSettings) ==
    \A i \in DOMAIN observationSettings.oneWayRangeObsevationSettings_ :
        observationSettings.oneWayRangeObsevationSettings_[i] # NULL

\* The per-hop settings are as many as the hops between the link ends and
\* each is of one-way range type.
PerHopSettingsFit(observationSettings, linkEnds) ==
    /\ Len(observationSettings.oneWayRangeObsevationSettings_)
           = Cardinality(DOMAIN linkEnds) - 1
    /\ \A i \in DOMAIN observationSettings.oneWayRangeObsevationSettings_ :
          observationSettings.oneWayRangeObsevationSettings_[i].observableType_
              = one_way_range

\* C27: n-way range between link ends that pass the check of the roles, with
\* an accepted bias.  With per-hop settings (all provided) the call fails
\* with an error unless they are as many as the hops (link ends minus one)
\* and each is of one-way range type; when they are, the call returns a model
\* whose hop i has the light-time corrections of per-hop settings i and which
\* carries the retransmission delay function of the settings.  With plain
\* settings the call returns a model whose every hop has the parent's
\* light-time corrections and which carries no retransmission delay function.
C27_NWayRangePerHopSettings ==
    (/\ op = CreateModelOp
     /\ args.ObservationSize = 1
     /\ args.observationSettings # NULL
     /\ args.observationSettings.observableType_ = n_way_range
     /\ NWayLinkEndsValid(args.linkEnds)
     /\ BiasAccepted(1, args.linkEnds, args.observationSettings)) =>
        /\ (/\ IsA(args.observationSettings, "NWayRangeObservationSettings")
            /\ PerHopSettingsProvided(args.observationSettings)) =>
               IF PerHopSettingsFit(args.observationSettings, args.linkEnds)
               THEN /\ outcome = "ok"
                    /\ built.kind = "NWayRangeObservationModel"
                    /\ Len(built.lightTimeCalculators)
                           = Cardinality(DOMAIN args.linkEnds) - 1
                    /\ \A i \in DOMAIN built.lightTimeCalculators :
                          built.lightTimeCalculators[i].lightTimeCorrections =
                              args.observationSettings.oneWayRangeObsevationSettings_[i]
                                  .lightTimeCorrectionsList_
                    /\ built.retransmissionTimesFunction =
                           args.observationSettings.retransmissionTimesFunction_
               ELSE outcome = "error"
        /\ IsA(args.observationSettings, "ObservationSettings") =>
               /\ outcome = "ok"
               /\ built.kind = "NWayRangeObservationModel"
               /\ Len(built.lightTimeCalculators)
                      = Cardinality(DOMAIN args.linkEnds) - 1
               /\ \A i \in DOMAIN built.lightTimeCalculators :
                     built.lightTimeCalculators[i].lightTimeCorrections =
                         args.observationSettings.lightTimeCorrectionsList_
               /\ built.retransmissionTimesFunction = NULL

\* An n-way range model of two hops was made from per-hop settings whose
\* light-time corrections differ, with a retransmission delay function.
C27_Witness ==
    /\ op = CreateModelOp
    /\ outcome = "ok"
    /\ IsA(args.observationSettings, "NWayRangeObservationSettings")
    /\ built.kind = "NWayRangeObservationModel"
    /\ Len(built.lightTimeCalculators) = 2
    /\ built.lightTimeCalculators[1].lightTimeCorrections
           # built.lightTimeCalculators[2].lightTimeCorrections
    /\ built.retransmissionTimesFunction # NULL

\* The call failed on per-hop settings that are not as many as the hops.
C27_WitnessCount ==
    /\ op = CreateModelOp
    /\ outcome = "error"
    /\ IsA(args.observationSettings, "NWayRangeObservationSettings")
    /\ NWayLinkEndsValid(args.linkEnds)
    /\ PerHopSettingsProvided(args.observationSettings)
    /\ Len(args.observationSettings.oneWayRangeObsevationSettings_)
           # Cardinality(DOMAIN args.linkEnds) - 1

\* The call failed on per-hop settings of which the second is not of one-way
\* range type.
C27_WitnessType ==
    /\ op = CreateModelOp
    /\ outcome = "error"
    /\ IsA(args.observationSettings, "NWayRangeObservationSettings")
    /\ NWayLinkEndsValid(args.linkEnds)
    /\ PerHopSettingsProvided(args.observationSettings)
    /\ Len(args.observationSettings.oneWayRangeObsevationSettings_) = 2
    /\ Cardinality(DOMAIN args.linkEnds) = 3
    /\ args.observationSettings.oneWayRangeObsevationSettings_[1].observableType_
           = one_way_range
    /\ args.observationSettings.oneWayRangeObsevationSettings_[2].observableType_
           # one_way_range

\* An n-way range model was made from plain settings with a light-time
\* correction.
C27_WitnessPlain ==
    /\ op = CreateModelOp
    /\ outcome = "ok"
    /\ IsA(args.observationSettings, "ObservationSettings")
    /\ built.kind = "NWayRangeObservationModel"
    /\ args.observationSettings.lightTimeCorrectionsList_ # <<>>
    /\ Len(built.lightTimeCalculators) = 2

\* The build constructed no light-time calculator.
NoHopBuilt ==
    \A i \in DOMAIN constructionLog : constructionLog[i].kind # "LightTimeCalculator"

\* C28: n-way range returns a model only if the link ends form a chain from
\* the transmitter over reflector1, ..., reflector-k to the receiver; link
\* ends that break the chain (a gap in the reflectors, or a role that is no
\* part of such a chain, as observed_body) are rejected with an error before
\* any hop is built.
C28_NWayRangeOnlyForChains ==
    (/\ op = CreateModelOp
     /\ args.ObservationSize = 1
     /\ args.observationSettings # NULL
     /\ args.observationSettings.observableType_ = n_way_range
     /\ ~ FormChain(args.linkEnds)) =>
        /\ outcome = "error"
        /\ NoHopBuilt

\* The part of C28 on link ends without a transmitter, without a receiver or
\* with a gap in the reflectors: they are rejected with an error before any
\* hop is built.
C28_GapsAndMissingEndsRejected ==
    (/\ op = CreateModelOp
     /\ args.ObservationSize = 1
     /\ args.observationSettings # NULL
     /\ args.observationSettings.observableType_ = n_way_range
     /\ \/ transmitter \notin DOMAIN args.linkEnds
        \/ receiver \notin DOMAIN args.linkEnds
        \/ reflector2 \in DOMAIN args.linkEnds /\ reflector1 \notin DOMAIN args.linkEnds) =>
        /\ outcome = "error"
        /\ NoHopBuilt

\* An n-way range model was made between a transmitter, a receiver and an
\* observed body.
C28_WitnessObservedBody ==
    /\ op = CreateModelOp
    /\ outcome = "ok"
    /\ built.kind = "NWayRangeObservationModel"
    /\ DOMAIN args.linkEnds = {transmitter, receiver, observed_body}
    /\ Len(built.lightTimeCalculators) = 2

\* Link ends with reflector2 and no reflector1 were rejected.
C28_WitnessGap ==
    /\ op = CreateModelOp
    /\ outcome = "error"
    /\ args.observationSettings # NULL
    /\ args.observationSettings.observableType_ = n_way_range
    /\ DOMAIN args.linkEnds = {transmitter, reflector2, receiver}

\* The input fails one of the validations of the creator: the checks on the
\* number and the roles of the link ends, on the class of the settings, on
\* the number and the type of the per-hop settings (n-way range) and on the
\* light-time corrections and the reference point (position observable).
FailsValidation(ObservationSize, linkEnds, observationSettings) ==
    CASE ObservationSize = 1
             /\ observationSettings.observableType_ \in {one_way_range, one_way_doppler} ->
                 ~ OneWayLinkEndsValid(linkEnds)
      [] ObservationSize = 1
             /\ observationSettings.observableType_ = one_way_differenced_range ->
                 \/ ~ IsA(observationSettings, "OneWayDifferencedRangeRateObservationSettings")
                 \/ ~ OneWayLinkEndsValid(linkEnds)
      [] ObservationSize = 1 /\ observationSettings.observableType_ = two_way_doppler ->
                 ~ TwoWayLinkEndsValid(linkEnds)
      [] ObservationSize = 1 /\ observationSettings.observableType_ = n_way_range ->
                 \/ ~ NWayLinkEndsValid(linkEnds)
                 \/ /\ IsA(observationSettings, "NWayRangeObservationSettings")
                    /\ ~ PerHopSettingsFit(observationSettings, linkEnds)
      [] ObservationSize = 2 /\ observationSettings.observableType_ = angular_position ->
                 ~ OneWayLinkEndsValid(linkEnds)
      [] ObservationSize = 3 /\ observationSettings.observableType_ = position_observable ->
                 ~ PositionInputValid(linkEnds, observationSettings)
      [] OTHER -> TRUE

\* C29: in every build of an observation model (creators of size 1, 2 and
\* 3, all observable types) validation precedes construction: a build whose
\* input fails a validation ends in an error and has constructed no bias
\* calculator and no light-time calculator.
C29_ValidationPrecedesConstruction ==
    (/\ op = CreateModelOp
     /\ args.observationSettings # NULL
     /\ IsA(args.observationSettings, "NWayRangeObservationSettings") =>
            PerHopSettingsProvided(args.observationSettings)
     /\ FailsValidation(args.ObservationSize, args.linkEnds, args.observationSettings)) =>
        /\ outcome = "error"
        /\ constructionLog = <<>>

\* The part of C29 on all observable types but n-way range with per-hop
\* settings: a build whose input fails a validation has constructed nothing.
C29_ValidationFirstButForPerHopSettings ==
    (/\ op = CreateModelOp
     /\ ~ IsA(args.observationSettings, "NWayRangeObservationSettings")) =>
        C29_ValidationPrecedesConstruction

\* n-way range with a bias and per-hop settings that are too few: the bias
\* calculator was constructed before the call failed.
C29_WitnessBiasBeforeCount ==
    /\ op = CreateModelOp
    /\ outcome = "error"
    /\ IsA(args.observationSettings, "NWayRangeObservationSettings")
    /\ NWayLinkEndsValid(args.linkEnds)
    /\ Len(args.observationSettings.oneWayRangeObsevationSettings_)
           < Cardinality(DOMAIN args.linkEnds) - 1
    /\ Len(constructionLog) = 1
    /\ constructionLog[1].kind # "LightTimeCalculator"

\* n-way range with per-hop settings of which the second is not of one-way
\* range type: the light-time calculator of the first hop was constructed
\* before the call failed.
C29_WitnessHopBeforeType ==
    /\ op = CreateModelOp
    /\ outcome = "error"
    /\ IsA(args.observationSettings, "NWayRangeObservationSettings")
    /\ args.observationSettings.biasSettings_ = NULL
    /\ PerHopSettingsProvided(args.observationSettings)
    /\ Len(constructionLog) = 1
    /\ constructionLog[1].kind = "LightTimeCalculator"

\* A build failed a validation with bias settings at hand and constructed
\* nothing: two-way Doppler without a reflector1.
C29_WitnessNothingConstructed ==
    /\ op = CreateModelOp
    /\ outcome = "error"
    /\ args.observationSettings # NULL
    /\ args.observationSettings.observableType_ = two_way_doppler
    /\ args.observationSettings.biasSettings_ # NULL
    /\ ~ TwoWayLinkEndsValid(args.linkEnds)
    /\ constructionLog = <<>>

\* The names under which a repeated call of a dependent-variable producer is
\* recorded.
SingleVariableAgainOp == "createEnvironmentUpdaterSettingsForDependentVariables_again"
VariablesAgainOp == "createEnvironmentUpdaterSettings_DependentVariables_again"

\* The step keeps the flight conditions of every body that has some.
FlightConditionsKept ==
    \A name \in DOMAIN bodyMap :
        bodyMap[name].flightConditions # "none" =>
            bodyMap'[name].flightConditions = bodyMap[name].flightConditions

\* C30: the dependent-variable producer is idempotent on the environment: a
\* second call with the same request, after a first call that returned,
\* leaves the environment exactly as the first call left it and returns the
\* same update set as the first call; no call of the producer replaces
\* flight conditions a body already has.
C30_DependentVariableProducerIdempotent ==
    [][ /\ op' \in {SingleVariableOp, VariablesOp, SingleVariableAgainOp, VariablesAgainOp} =>
               FlightConditionsKept
        /\ op' \in {SingleVariableAgainOp, VariablesAgainOp} =>
               /\ outcome' = "ok"
               /\ bodyMap' = bodyMap
               /\ updates' = updates ]_vars

\* The altitude of the vehicle above the Sun, which has no atmosphere, was
\* requested a second time: the vehicle has the plain flight conditions the
\* first call attached, and the update set lists it for them.
C30_Witness ==
    /\ op = SingleVariableAgainOp
    /\ outcome = "ok"
    /\ args.dependentVariableType = "altitude_dependent_variable"
    /\ args.associatedBody = "Vehicle"
    /\ args.secondaryBody = "Sun"
    /\ bodyMap["Vehicle"].flightConditions = "plain"
    /\ vehicle_flight_conditions_update \in DOMAIN updates

\* Save settings with two dependent variables were requested a second time
\* on a vehicle holding flight conditions a call attached.
C30_WitnessList ==
    /\ op = VariablesAgainOp
    /\ outcome = "ok"
    /\ Len(args.dependentVariables) = 2
    /\ bodyMap["Vehicle"].flightConditions = "plain"
    /\ vehicle_flight_conditions_update \in DOMAIN updates

=============================================================================
